---- MODULE Spec2Model ----
(***************************************************************************)
(* A model of the meeting-secretary pipeline: the transcript analyzer      *)
(* (openai_analyzer.py), the protocol template renderer                    *)
(* (create_protocol.py), the Weeek publisher with its member lookup and    *)
(* due-date parsing (weeek_integration.py), the secretary that runs the    *)
(* stages (meeting_secretary.py), the Vosk transcriber                     *)
(* (vosk_transcriber.py) and the chat front end (bot.py).  Each component  *)
(* has its own specification; the variables of the others stay at their    *)
(* "off" values.                                                           *)
(*                                                                         *)
(* Text is modelled as a sequence of lexemes.  A lexeme is either a word   *)
(* (one or more characters of the regex class \w, kept atomic) or a single *)
(* non-word character.  Russian identifiers and messages of the source are *)
(* transliterated to ASCII.                                                *)
(***************************************************************************)
EXTENDS Integers, Sequences, FiniteSets, TLC

VARIABLES
    aPc,            \* analyzer: "off" | "idle" | "analyzed" | "validated"
    transcript,     \* analyzer: the transcript handed to analyze_transcript
    response,       \* analyzer: what the engine answered (or would answer)
    analysis,       \* analyzer: the MeetingAnalysis returned
    engineCalls,    \* analyzer: number of chat.completions.create calls made
    analyzeRaised,  \* analyzer: TRUE iff analyze_transcript raised
    valid,          \* analyzer: result of validate_analysis
    rPc,            \* renderer: "off" | "ready" | "rendered" | "failed"
    template,       \* renderer: the document the last rendering read
    doc,            \* renderer: the document on disk (rendered in place of it)
    meeting,        \* renderer: the MeetingAnalysis being rendered
    renders,        \* renderer: number of replace_placeholders runs so far
    pPc,            \* publisher: "off" | "ready" | "returned" | "raised"
    pubAnalysis,    \* publisher: the MeetingAnalysis handed to it
    projectId,      \* publisher: the project_id argument (None or an id)
    tracker,        \* publisher: how the Weeek API answers
    requests,       \* publisher: the API requests issued, in order
    pubResult,      \* publisher: what create_tasks_from_analysis gave back
    fPc,            \* member lookup: "off" | "ready" | "done"
    fMembers,       \* member lookup: the workspace members, in listing order
    fName,          \* member lookup: the name looked up
    fResult,        \* member lookup: what find_user_by_name gave back
    dPc,            \* due date: "off" | "ready" | "done"
    dInput,         \* due date: the date_string given, with how it was written
    dToday,         \* due date: the date datetime.now() falls on
    dPadsYear,      \* due date: whether the C library's %Y pads the year to 4 digits
    dResult,        \* due date: what parse_due_date gave back
    oPc,            \* secretary: "off" | "unbuilt" | "setup_failed" | "idle" | "transcribing"
                    \*   | "extracting" | "publishing" | "assembling" | "done" | "failed" | "raised"
    oEnv,           \* secretary: the configuration and how the surroundings answer
    oWeeek,         \* secretary: TRUE iff self.weeek_integration is not None
    oCalls,         \* secretary: the tracker requests issued, in order
    oRun,           \* secretary: the locals of process_meeting_audio and the stage that raised
    oResult,        \* secretary: what process_meeting_audio returned, or the exception raised
    bPc,            \* bot: where the handler of each chat session stands
    bIn,            \* bot: the message of each session and how its download goes
    bFiles,         \* bot: the files of the working directory, by name
    bSeen,          \* bot: per session, the audio processed and the document sent
    tPc,            \* transcriber: "off" | "unloaded" | "ready" | "returned" | "raised"
    chunkSize,      \* transcriber: config.chunk_size, in ms
    recognizer,     \* transcriber: self.recognizer
    tCalls,         \* transcriber: number of transcribe_audio calls so far
    tIn,            \* transcriber: the audio of the last call and where it fails
    tOut            \* transcriber: what the last call fed, got and gave back

analyzerVars == <<aPc, transcript, response, analysis, engineCalls, analyzeRaised, valid>>
renderVars == <<rPc, template, doc, meeting, renders>>
publishVars == <<pPc, pubAnalysis, projectId, tracker, requests, pubResult>>
findVars == <<fPc, fMembers, fName, fResult>>
dueVars == <<dPc, dInput, dToday, dPadsYear, dResult>>
secretaryVars == <<oPc, oEnv, oWeeek, oCalls, oRun, oResult>>
botVars == <<bPc, bIn, bFiles, bSeen>>
transcriberVars == <<tPc, chunkSize, recognizer, tCalls, tIn, tOut>>
vars == <<analyzerVars, renderVars, publishVars, findVars, dueVars, secretaryVars, botVars,
          transcriberVars>>

----------------------------------------------------------------------------
(* Bounds of the model *)

MaxLen == 2         \* longest transcript, in characters
MaxTasks == 1       \* longest task list in an engine payload
MaxRuns == 2        \* most runs in a template paragraph
MaxRows == 2        \* most rows in a template table
MaxItems == 2       \* longest list in a rendered record
MaxRenders == 2     \* renderings of one document in a row
MaxMembers == 2     \* most members in a workspace listing
MaxSessions == 2    \* chat sessions whose handlers interleave
MaxAudio == 3       \* longest audio, in ms
MaxChunk == 2       \* largest chunk size, in ms
MaxCalls == 2       \* calls of transcribe_audio on one transcriber

----------------------------------------------------------------------------
(* Generic helpers *)

RECURSIVE SeqsUpTo(_, _)
SeqsUpTo(S, n) ==
    IF n = 0 THEN {<<>>}
    ELSE LET shorter == SeqsUpTo(S, n - 1)
         IN  shorter \cup {Append(s, x) : s \in {q \in shorter : Len(q) = n - 1}, x \in S}

(* JSON / Python values, tagged so that values of different types compare *)
JAbsent == [tag |-> "absent"]                 \* the key is not in the dict
JNull == [tag |-> "null"]                     \* JSON null / Python None
JStr(s) == [tag |-> "str", val |-> s]
JList(l) == [tag |-> "list", val |-> l]
JDict(d) == [tag |-> "dict", val |-> d]

(* dict.get(key, default) on a payload whose missing keys hold JAbsent *)
Get(d, k, default) == IF d[k].tag = "absent" THEN default ELSE d[k]

(* Python truthiness of a value: None, "", [] and {} are falsy *)
Truthy(v) ==
    CASE v.tag = "null" -> FALSE
      [] v.tag = "absent" -> FALSE
      [] v.tag = "str" -> v.val # <<>>
      [] v.tag = "list" -> v.val # <<>>
      [] v.tag = "dict" -> DOMAIN v.val # {}
      [] OTHER -> TRUE

----------------------------------------------------------------------------
(* openai_analyzer.py *)

IsSpace(c) == c \in {" ", "\t", "\n"}

RECURSIVE LStrip(_)
LStrip(s) == IF s # <<>> /\ IsSpace(Head(s)) THEN LStrip(Tail(s)) ELSE s

RECURSIVE RStrip(_)
RStrip(s) ==
    IF s # <<>> /\ IsSpace(s[Len(s)]) THEN RStrip(SubSeq(s, 1, Len(s) - 1)) ELSE s

(* str.strip() *)
Strip(s) == RStrip(LStrip(s))

ListFields == {"tasks", "hypotheses", "decisions", "participants", "absent"}

(* required_fields of validate_analysis: nazvanie, opisanie, sut_zadachi,
   kto_vypolnyaet, srok *)
RequiredFields == <<"nazvanie", "opisanie", "sut_zadachi", "kto_vypolnyaet", "srok">>

NotAnalyzedSummary == <<"Analiz ne vypolnen">>
ErrorSummaryPrefix == <<"Oshibka pri sozdanii rezyume: ">>

(* _create_empty_analysis(transcript, error_message) *)
CreateEmptyAnalysis(t, errorMessage) ==
    [transcript |-> t,
     summary |-> JStr(IF errorMessage # <<>>
                      THEN ErrorSummaryPrefix \o errorMessage
                      ELSE NotAnalyzedSummary),
     tasks |-> JList(<<>>),
     hypotheses |-> JList(<<>>),
     decisions |-> JList(<<>>),
     participants |-> JList(<<>>),
     president |-> JStr(<<>>),
     secretary |-> JStr(<<>>),
     absent |-> JList(<<>>)]

Ok(v) == [ok |-> TRUE, val |-> v]
Raise(e, m) == [ok |-> FALSE, exc |-> e, msg |-> m]

(* client.chat.completions.create: the engine either fails or answers *)
EngineCall(resp) ==
    IF resp.kind = "api_error" THEN Raise("APIError", <<"Connection error.">>)
    ELSE Ok(resp)

(* parse_tool_response: response.choices[0].message.tool_calls[0], then
   json.loads of its arguments; every exception leaves the function (the
   listed ones are logged and re-raised, the others are not caught) *)
ParseToolResponse(resp) ==
    CASE resp.kind = "no_choices" -> Raise("IndexError", <<"list index out of range">>)
      [] resp.kind = "no_tool_calls" ->
            Raise("TypeError", <<"'NoneType' object is not subscriptable">>)
      [] resp.kind = "empty_tool_calls" ->
            Raise("IndexError", <<"list index out of range">>)
      [] resp.kind = "bad_json" -> Raise("JSONDecodeError", <<"Expecting value">>)
      [] resp.kind = "json_non_object" -> Ok(resp.data)
      [] OTHER -> Ok(JDict(resp.payload))

(* len(analysis_data.get('tasks', [])) of the log line *)
TasksLenForLog(data) ==
    IF data.tag # "dict"
    THEN Raise("AttributeError", <<"object has no attribute 'get'">>)
    ELSE LET t == Get(data.val, "tasks", JList(<<>>))
         IN  IF t.tag \in {"list", "str", "dict"} THEN Ok(t)
             ELSE Raise("TypeError", <<"object of type 'NoneType' has no len()">>)

(* MeetingAnalysis(transcript=..., summary=analysis_data.get("summary", ""), ...) *)
BuildAnalysis(t, d) ==
    [transcript |-> t,
     summary |-> Get(d, "summary", JStr(<<>>)),
     tasks |-> Get(d, "tasks", JList(<<>>)),
     hypotheses |-> Get(d, "hypotheses", JList(<<>>)),
     decisions |-> Get(d, "decisions", JList(<<>>)),
     participants |-> Get(d, "participants", JList(<<>>)),
     president |-> Get(d, "president", JStr(<<>>)),
     secretary |-> Get(d, "secretary", JStr(<<>>)),
     absent |-> Get(d, "absent", JList(<<>>))]

(* the body of the try block of analyze_transcript *)
AnalyzeTryBody(t, resp) ==
    LET called == EngineCall(resp)
    IN  IF ~called.ok THEN called
        ELSE LET parsed == ParseToolResponse(called.val)
             IN  IF ~parsed.ok THEN parsed
                 ELSE LET logged == TasksLenForLog(parsed.val)
                      IN  IF ~logged.ok THEN logged
                          ELSE Ok(BuildAnalysis(t, parsed.val.val))

(* a variant: the handler catches only what parse_tool_response names *)
AnalyzeCatchesParseErrorsOnly(exc) == exc \in {"IndexError", "KeyError", "JSONDecodeError"}

(* "except Exception as e" of analyze_transcript *)
AnalyzeCatches(exc) == TRUE

(* a variant: only the empty string counts as an empty transcript *)
IsBlankTranscriptNoStrip(t) == t = <<>>

(* "if not transcript.strip()" *)
IsBlankTranscript(t) == Strip(t) = <<>>

(* analyze_transcript: the record returned, the engine calls made, raised or not *)
AnalyzeResult(t, resp) ==
    IF IsBlankTranscript(t)
    THEN [rec |-> CreateEmptyAnalysis(t, <<>>), calls |-> 0, raised |-> FALSE]
    ELSE LET body == AnalyzeTryBody(t, resp)
         IN  IF body.ok THEN [rec |-> body.val, calls |-> 1, raised |-> FALSE]
             ELSE IF AnalyzeCatches(body.exc)
                  THEN [rec |-> CreateEmptyAnalysis(t, body.msg), calls |-> 1,
                        raised |-> FALSE]
                  ELSE [rec |-> [tag |-> "none"], calls |-> 1, raised |-> TRUE]

(* "if not task.get(field)" for one task of validate_analysis *)
TaskLacks(task, field) == field \notin DOMAIN task \/ task[field] = <<>>

TaskIncomplete(task) == \E i \in 1..Len(RequiredFields) : TaskLacks(task, RequiredFields[i])

(* the loop over analysis.tasks: "false" at the first incomplete task, "raise"
   at the first item that is no dict (it has no .get), else "pass" *)
RECURSIVE ValidateTasks(_)
ValidateTasks(items) ==
    IF items = <<>> THEN "pass"
    ELSE IF Head(items).tag # "dict" THEN "raise"
    ELSE IF TaskIncomplete(Head(items).val) THEN "false"
    ELSE ValidateTasks(Tail(items))

(* validate_analysis: "true", "false", or "raise" when it raises *)
ValidateAnalysis(a) ==
    IF ~Truthy(a.summary) THEN "false"
    ELSE IF a.tasks.tag \notin {"list", "str", "dict"} THEN "raise"
    ELSE LET loop == IF a.tasks.tag = "list" THEN ValidateTasks(a.tasks.val)
                     ELSE IF Truthy(a.tasks) THEN "raise" ELSE "pass"
         IN  IF loop # "pass" THEN loop
             ELSE IF a.decisions.tag \notin {"list", "str", "dict"} THEN "raise"
             ELSE "true"

(* Inputs: transcripts over a blank and a letter *)
Transcripts == SeqsUpTo({" ", "a"}, MaxLen)

FullTask == [f \in {RequiredFields[i] : i \in 1..Len(RequiredFields)} |-> <<"v">>]
TaskWithout(f) == [g \in (DOMAIN FullTask) \ {f} |-> FullTask[g]]
TaskBlank(f) == [FullTask EXCEPT ![f] = <<>>]

TaskItems ==
    {JDict(FullTask), JDict(TaskWithout("srok")), JDict(TaskBlank("kto_vypolnyaet")),
     JStr(<<"t">>)}

SummaryOpts == {JAbsent, JNull, JStr(<<>>), JStr(<<"s">>)}
TasksOpts == {JAbsent, JNull} \cup {JList(l) : l \in SeqsUpTo(TaskItems, MaxTasks)}
ListOpts == {JAbsent, JNull, JList(<<JStr(<<"x">>)>>)}
NameOpts == {JAbsent, JStr(<<"n">>)}

Payloads ==
    [summary : SummaryOpts, tasks : TasksOpts, hypotheses : ListOpts,
     decisions : ListOpts, participants : ListOpts, president : NameOpts,
     secretary : NameOpts, absent : ListOpts]

FailedResponses ==
    {[kind |-> "api_error"], [kind |-> "no_choices"], [kind |-> "no_tool_calls"],
     [kind |-> "empty_tool_calls"], [kind |-> "bad_json"],
     [kind |-> "json_non_object", data |-> JNull],
     [kind |-> "json_non_object", data |-> JList(<<>>)]}

Responses == FailedResponses \cup {[kind |-> "object", payload |-> p] : p \in Payloads}

NoResponse == [kind |-> "none"]
NoAnalysis == [tag |-> "none"]

RenderOff ==
    /\ rPc = "off"
    /\ template = [paragraphs |-> <<>>, tables |-> <<>>]
    /\ doc = [paragraphs |-> <<>>, tables |-> <<>>]
    /\ meeting = [tag |-> "none"]
    /\ renders = 0

PublishOff ==
    /\ pPc = "off"
    /\ pubAnalysis = [tag |-> "none"]
    /\ projectId = JNull
    /\ tracker = [tag |-> "none"]
    /\ requests = <<>>
    /\ pubResult = [tag |-> "none"]

FindOff ==
    /\ fPc = "off"
    /\ fMembers = <<>>
    /\ fName = <<>>
    /\ fResult = [tag |-> "none"]

DueOff ==
    /\ dPc = "off"
    /\ dInput = [kind |-> "none"]
    /\ dToday = <<1, 1, 1>>
    /\ dPadsYear = FALSE
    /\ dResult = [tag |-> "none"]

TranscriberOff ==
    /\ tPc = "off"
    /\ chunkSize = 0
    /\ recognizer = [tag |-> "none"]
    /\ tCalls = 0
    /\ tIn = [tag |-> "none"]
    /\ tOut = [tag |-> "none"]

BotOff ==
    /\ bPc = <<>>
    /\ bIn = <<>>
    /\ bFiles = <<>>
    /\ bSeen = <<>>

SecretaryOff ==
    /\ oPc = "off"
    /\ oEnv = [tag |-> "none"]
    /\ oWeeek = FALSE
    /\ oCalls = <<>>
    /\ oRun = [tag |-> "none"]
    /\ oResult = [tag |-> "none"]

InitAnalyze ==
    /\ RenderOff
    /\ PublishOff
    /\ FindOff
    /\ DueOff
    /\ SecretaryOff
    /\ BotOff
    /\ TranscriberOff
    /\ aPc = "idle"
    /\ transcript = <<>>
    /\ response = NoResponse
    /\ analysis = NoAnalysis
    /\ engineCalls = 0
    /\ analyzeRaised = FALSE
    /\ valid = "none"

(* analyzer.analyze_transcript(t), the engine answering resp if it is asked *)
AnalyzeTranscript(t, resp) ==
    /\ LET r == AnalyzeResult(t, resp)
       IN  /\ analysis' = r.rec
           /\ engineCalls' = engineCalls + r.calls
           /\ analyzeRaised' = r.raised
           /\ response' = IF r.calls = 0 THEN NoResponse ELSE resp
    /\ transcript' = t
    /\ aPc' = "analyzed"
    /\ UNCHANGED <<valid, renderVars, publishVars, findVars, dueVars, secretaryVars,
                   botVars,
                   transcriberVars>>

(* analyzer.validate_analysis(analysis) on the record just returned *)
Validate ==
    /\ aPc = "analyzed"
    /\ ~analyzeRaised
    /\ valid' = ValidateAnalysis(analysis)
    /\ aPc' = "validated"
    /\ UNCHANGED <<transcript, response, analysis, engineCalls, analyzeRaised, renderVars,
                   publishVars, findVars, dueVars, secretaryVars,
                   botVars,
                   transcriberVars>>

AnalyzeStep ==
    /\ aPc = "idle"
    /\ \E t \in Transcripts, resp \in Responses : AnalyzeTranscript(t, resp)

NextAnalyze ==
    \/ AnalyzeStep
    \/ Validate

SpecAnalyze == InitAnalyze /\ [][NextAnalyze]_vars

----------------------------------------------------------------------------
(* Claims about the analyzer, checked under SpecAnalyze *)

Analyzed == aPc \in {"analyzed", "validated"}

WhitespaceOnly(t) == \A i \in 1..Len(t) : IsSpace(t[i])

AllListsEmpty(a) == \A f \in ListFields : a[f] = JList(<<>>)

StartsWith(s, prefix) ==
    Len(s) >= Len(prefix) /\ SubSeq(s, 1, Len(prefix)) = prefix

(* C1: for an empty or whitespace-only transcript analyze_transcript returns a
   record whose tasks, decisions, hypotheses, participants and absent are empty
   sequences and whose summary is a non-empty diagnostic string, and the engine
   is never called. *)
C1_BlankTranscriptGivesEmptyRecord ==
    (Analyzed /\ WhitespaceOnly(transcript)) =>
        /\ ~analyzeRaised
        /\ AllListsEmpty(analysis)
        /\ analysis.summary.tag = "str"
        /\ analysis.summary.val # <<>>
        /\ engineCalls = 0

C1_Witness ==
    /\ aPc = "analyzed"
    /\ transcript = <<" ", " ">>
    /\ engineCalls = 0
    /\ analysis.summary = JStr(NotAnalyzedSummary)

(* C2: for a non-empty transcript analyze_transcript calls the engine at most
   once and never raises; when the engine call fails or the response has no
   tool-call payload or a malformed one, it returns an empty record (all list
   fields empty, the transcript kept) whose summary carries the error detail,
   and no second engine call is made. *)
C2_DecodeFailureIsFailSoft ==
    (Analyzed /\ ~WhitespaceOnly(transcript)) =>
        /\ engineCalls <= 1
        /\ ~analyzeRaised
        /\ response \in FailedResponses =>
              /\ engineCalls = 1
              /\ AllListsEmpty(analysis)
              /\ analysis.transcript = transcript
              /\ analysis.summary.tag = "str"
              /\ StartsWith(analysis.summary.val, ErrorSummaryPrefix)
              /\ Len(analysis.summary.val) > Len(ErrorSummaryPrefix)

C2_Witness ==
    /\ aPc = "analyzed"
    /\ transcript = <<"a">>
    /\ response.kind = "no_tool_calls"
    /\ engineCalls = 1
    /\ ~analyzeRaised
    /\ AllListsEmpty(analysis)

SomeTaskLacksAField(a) ==
    /\ a.tasks.tag = "list"
    /\ \E i \in 1..Len(a.tasks.val) :
          /\ a.tasks.val[i].tag = "dict"
          /\ \E k \in 1..Len(RequiredFields) :
                TaskLacks(a.tasks.val[i].val, RequiredFields[k])

(* C3: for every record analyze_transcript can return, validate_analysis never
   raises, and it returns false exactly when summary is empty or some task is
   missing one of the five required fields; otherwise it returns true. *)
C3_ValidateNeverRaises ==
    aPc = "validated" =>
        /\ valid # "raise"
        /\ (valid = "false") <=> (~Truthy(analysis.summary) \/ SomeTaskLacksAField(analysis))
        /\ valid \in {"true", "false"}

(* C4: in every record analyze_transcript returns, for every engine payload
   (a list-valued key may be absent or null), tasks, hypotheses, decisions,
   participants and absent are sequences and never null. *)
C4_ListFieldsNeverNull ==
    (Analyzed /\ ~analyzeRaised) =>
        \A f \in ListFields : analysis[f].tag = "list"

(* the record was made by the fallback of analyze_transcript: the transcript
   was blank, or the engine call or the decoding of its answer failed *)
ViaFallback == WhitespaceOnly(transcript) \/ response \in FailedResponses

(* C29: for every record analyze_transcript returns through its fallback
   (blank transcript, engine failure, decode failure), validate_analysis
   returns false, which makes the caller log its warning. *)
C29_FallbackRecordIsInvalid ==
    (aPc = "validated" /\ ViaFallback) => valid = "false"

----------------------------------------------------------------------------
(* create_protocol.py: replace_placeholders                                 *)
(*                                                                          *)
(* A run is a Text, a paragraph a sequence of runs, a table cell one        *)
(* paragraph, a row a sequence of cells, a table a sequence of rows; a      *)
(* document is its body paragraphs and its tables.  Values of the record    *)
(* are written with one lexeme per character, so that iterating a string    *)
(* yields its characters.                                                   *)

NonWord == {"{", "}", ":", " ", "-", "'", "[", "]", ",", "<", ">", "."}

(* the regex class \w on a lexeme *)
IsWord(x) == x \notin NonWord

(* "- dannye ne ukazany -", 21 characters *)
Sentinel ==
    <<"-", " ", "d", "a", "n", "n", "y", "e", " ", "n", "e", " ",
      "u", "k", "a", "z", "a", "n", "y", " ", "-">>

FieldNames ==
    {"transcript", "summary", "tasks", "hypotheses", "decisions", "participants",
     "president", "secretary", "absent"}

(* what hasattr(meeting, key) accepts beyond the dataclass fields: the
   attributes every Python object has; __class__ stands for them *)
ObjectAttrs == {"__class__"}

ClassRepr == <<"<", "class", " ", "'", "openai_analyzer", ".", "MeetingAnalysis", "'", ">">>

JObj(t) == [tag |-> "obj", val |-> t]

RECURSIVE Concat(_)
(* ''.join(run.text for run in paragraph.runs) *)
Concat(runs) == IF runs = <<>> THEN <<>> ELSE Head(runs) \o Concat(Tail(runs))

Digit(n) == <<"0", "1", "2", "3", "4", "5", "6", "7", "8", "9">>[n + 1]

RECURSIVE Decimal(_)
(* str(n) of a natural number *)
Decimal(n) == IF n < 10 THEN <<Digit(n)>> ELSE Decimal(n \div 10) \o <<Digit(n % 10)>>

(* insertion order of the keys of the dicts of the record *)
KeyOrder ==
    <<"nazvanie", "opisanie", "sut_zadachi", "kto_vypolnyaet", "srok",
      "hypothesis", "status", "related_area">>

Quote(t) == <<"'">> \o t \o <<"'">>

RECURSIVE ReprDictFrom(_, _, _)
ReprDictFrom(d, i, first) ==
    IF i > Len(KeyOrder) THEN <<>>
    ELSE IF KeyOrder[i] \notin DOMAIN d THEN ReprDictFrom(d, i + 1, first)
    ELSE (IF first THEN <<>> ELSE <<",", " ">>)
         \o Quote(<<KeyOrder[i]>>) \o <<":", " ">> \o Quote(d[KeyOrder[i]])
         \o ReprDictFrom(d, i + 1, FALSE)

(* repr of a dict of strings *)
ReprDict(d) == <<"{">> \o ReprDictFrom(d, 1, TRUE) \o <<"}">>

(* repr of a list item *)
ReprItem(v) ==
    CASE v.tag = "str" -> Quote(v.val)
      [] v.tag = "dict" -> ReprDict(v.val)
      [] OTHER -> <<"None">>

RECURSIVE ReprItems(_, _)
ReprItems(l, i) ==
    IF i > Len(l) THEN <<>>
    ELSE (IF i = 1 THEN <<>> ELSE <<",", " ">>) \o ReprItem(l[i]) \o ReprItems(l, i + 1)

(* str(value) *)
StrOf(v) ==
    CASE v.tag = "str" -> v.val
      [] v.tag = "null" -> <<"None">>
      [] v.tag = "list" -> <<"[">> \o ReprItems(v.val, 1) \o <<"]">>
      [] v.tag = "dict" -> ReprDict(v.val)
      [] OTHER -> v.val

(* hasattr(meeting, key): key is the matched group, a run of word lexemes *)
HasAttr(key) == Len(key) = 1 /\ key[1] \in FieldNames \cup ObjectAttrs

(* get_value(key) *)
GetValue(m, key) ==
    IF HasAttr(key)
    THEN IF key[1] \in FieldNames THEN m[key[1]] ELSE JObj(ClassRepr)
    ELSE JStr(Sentinel)

(* the least of a non-empty set of positions *)
Least(S) == CHOOSE x \in S : \A y \in S : x <= y

(* the index just past the longest run of word lexemes of s that starts at i *)
WordEnd(s, i) ==
    Least({j \in i..(Len(s) + 1) : j > Len(s) \/ ~IsWord(s[j])} \cup {Len(s) + 1})

NoMatch == [ok |-> FALSE]

(* pattern = \{(\w+)(?::(\w+))?\} tried at position i of s *)
MatchAt(s, i) ==
    IF i > Len(s) \/ s[i] # "{" THEN NoMatch
    ELSE LET j == WordEnd(s, i + 1)
         IN  IF j = i + 1 \/ j > Len(s) THEN NoMatch
             ELSE IF s[j] = "}"
             THEN [ok |-> TRUE, g1 |-> SubSeq(s, i + 1, j - 1), g2 |-> <<>>, last |-> j]
             ELSE IF s[j] = ":"
             THEN LET k == WordEnd(s, j + 1)
                  IN  IF k = j + 1 \/ k > Len(s) \/ s[k] # "}" THEN NoMatch
                      ELSE [ok |-> TRUE, g1 |-> SubSeq(s, i + 1, j - 1),
                            g2 |-> SubSeq(s, j + 1, k - 1), last |-> k]
             ELSE NoMatch

(* a variant: an empty list is taken for a missing value ("and value") *)
CountTextTruthy(value) ==
    IF value.val = <<>> THEN Sentinel ELSE Decimal(Len(value.val))

(* str(len(value)) of the count modifier *)
CountText(value) == Decimal(Len(value.val))

(* replace_match(match) *)
ReplaceMatch(mt, m) ==
    IF mt.g2 # <<>>
    THEN LET value == GetValue(m, mt.g2)
         IN  IF mt.g1 = <<"count">> /\ value.tag = "list" THEN CountText(value)
             ELSE IF mt.g1 = <<"tableNum">> /\ value.tag = "list"
             THEN <<"{", "tableNum", ":">> \o mt.g2 \o <<"}">>
             ELSE IF mt.g1 = <<"tableBig">> /\ value.tag = "list"
             THEN <<"{", "tableBig", ":">> \o mt.g2 \o <<"}">>
             ELSE Sentinel
    ELSE LET value == GetValue(m, mt.g1)
         IN  IF value.tag # "null" THEN StrOf(value) ELSE Sentinel

RECURSIVE SubFrom(_, _, _)
(* the scan of pattern.sub from position i: text up to the next "{" is kept,
   a match there is replaced and the scan resumes after it, and a "{" that
   opens no match is kept *)
SubFrom(s, i, m) ==
    LET opens == {j \in i..Len(s) : s[j] = "{"}
    IN  IF opens = {} THEN SubSeq(s, i, Len(s))
        ELSE LET j == Least(opens)
                 mt == MatchAt(s, j)
             IN  SubSeq(s, i, j - 1)
                     \o (IF mt.ok THEN ReplaceMatch(mt, m) \o SubFrom(s, mt.last + 1, m)
                         ELSE <<"{">> \o SubFrom(s, j + 1, m))

(* pattern.sub(replace_match, full_text) *)
Sub(s, m) == SubFrom(s, 1, m)

(* the positions of s where {name:key} matches *)
MarkerStarts(s, name) ==
    {i \in 1..(Len(s) - 4) :
        /\ s[i] = "{" /\ s[i + 1] = name /\ s[i + 2] = ":"
        /\ WordEnd(s, i + 3) > i + 3
        /\ WordEnd(s, i + 3) <= Len(s)
        /\ s[WordEnd(s, i + 3)] = "}"}

(* re.search(r'\{tableNum:(\w+)\}', full_text), likewise for tableBig *)
SearchMarker(s, name) ==
    LET starts == MarkerStarts(s, name)
    IN  IF starts = {} THEN NoMatch
        ELSE LET i == Least(starts)
             IN  [ok |-> TRUE, key |-> SubSeq(s, i + 3, WordEnd(s, i + 3) - 1)]

HasBrace(s) == \E i \in 1..Len(s) : s[i] = "{"

(* a variant: the other runs keep their text *)
SetParagraphTextKeepRuns(par, text) ==
    IF par = <<>> THEN par
    ELSE [par EXCEPT ![1] = text]

(* runs[1:] get "", runs[0] gets the text; a paragraph without runs is left *)
SetParagraphText(par, text) ==
    IF par = <<>> THEN par
    ELSE [i \in 1..Len(par) |-> IF i = 1 THEN text ELSE <<>>]

(* a variant: only the first run is read, the others are still cleared *)
ParagraphPassFirstRunOnly(par, m) ==
    IF ~HasBrace(Concat(par)) THEN par
    ELSE SetParagraphText(par, Sub(par[1], m))

(* the body of "for paragraph in doc.paragraphs" *)
ParagraphPass(par, m) ==
    IF ~HasBrace(Concat(par)) THEN par
    ELSE SetParagraphText(par, Sub(Concat(par), m))

(* "for i, item in enumerate(items, 1)": the items the loop sees, or the
   TypeError of iterating a value that is not iterable *)
Iterate(v) ==
    CASE v.tag = "list" -> Ok(v.val)
      [] v.tag = "str" -> Ok([i \in 1..Len(v.val) |-> JStr(<<v.val[i]>>)])
      [] OTHER -> Raise("TypeError", <<"object is not iterable">>)

(* every paragraph of the row that has runs gets str(item) *)
FillRowNum(row, text) == [k \in 1..Len(row) |-> SetParagraphText(row[k], text)]

(* a variant that copies the row for the first item too *)
CopiedItemsAll(items) == items

(* the items with i # 1, each of which gets a deep copy of the row that
   table._tbl.append puts at the end of the table *)
CopiedItems(items) == Tail(items)

(* the tableNum loop: the first item fills row r itself ("new_row = row"), each
   later item fills a copy of that row, added after the last row of the table *)
ExpandNum(tbl, r, items) ==
    IF items = <<>> THEN tbl
    ELSE LET first == FillRowNum(tbl[r], StrOf(items[1]))
             rest == CopiedItems(items)
         IN  [tbl EXCEPT ![r] = first]
                 \o [i \in 1..Len(rest) |-> FillRowNum(first, StrOf(rest[i]))]

(* item.get(k1, item.get(k2, "")) *)
DictGet2(d, k1, k2) ==
    IF k1 \in DOMAIN d THEN d[k1] ELSE IF k2 \in DOMAIN d THEN d[k2] ELSE <<>>

(* the columns of one tableBig row: number, content, assignee, due; new_cell.text
   leaves the cell with one run *)
FillRowBig(row, i, d) ==
    [k \in 1..Len(row) |->
        CASE k = 1 -> <<Decimal(i)>>
          [] k = 2 -> <<DictGet2(d, "sut_zadachi", "gipoteza")>>
          [] k = 3 -> <<DictGet2(d, "kto_vypolnyaet", "otvetstvennyj")>>
          [] k = 4 -> <<DictGet2(d, "srok", "data_proverki")>>
          [] OTHER -> row[k]]

(* the tableBig loop; item.get raises AttributeError on an item that is no dict *)
ExpandBig(tbl, r, items) ==
    IF \E i \in 1..Len(items) : items[i].tag # "dict"
    THEN Raise("AttributeError", <<"object has no attribute 'get'">>)
    ELSE IF items = <<>> THEN Ok(tbl)
    ELSE LET first == FillRowBig(tbl[r], 1, items[1].val)
             rest == CopiedItems(items)
         IN  Ok([tbl EXCEPT ![r] = first]
                    \o [i \in 1..Len(rest) |-> FillRowBig(first, i + 1, rest[i].val)])

(* the body of "for paragraph in cell.paragraphs" for cell c of row r *)
ProcessCell(tbl, r, c, m) ==
    LET par == tbl[r][c]
        full == Concat(par)
        num == SearchMarker(full, "tableNum")
        big == SearchMarker(full, "tableBig")
    IN  IF ~HasBrace(full) THEN Ok(tbl)
        ELSE IF num.ok
        THEN LET items == Iterate(GetValue(m, num.key))
                 cleared == [tbl EXCEPT ![r][c] = SetParagraphText(par, <<>>)]
             IN  IF ~items.ok THEN items ELSE Ok(ExpandNum(cleared, r, items.val))
        ELSE IF big.ok
        THEN LET items == Iterate(GetValue(m, big.key))
                 marked == [tbl EXCEPT ![r][c] = [par EXCEPT ![1] = <<"1">>]]
             IN  IF ~items.ok THEN items ELSE ExpandBig(marked, r, items.val)
        ELSE Ok([tbl EXCEPT ![r][c] = SetParagraphText(par, Sub(full, m))])

(* the cells at or after cell c of row r, in rows up to n0, whose text has a
   "{": the other cells are passed over by "continue" *)
BraceCells(tbl, r, c, n0) ==
    UNION {{<<x, y>> : y \in {z \in 1..Len(tbl[x]) :
                                  /\ x > r \/ z >= c
                                  /\ HasBrace(Concat(tbl[x][z]))}} : x \in r..n0}

(* the first of a set of cells in row-major order *)
FirstCell(cells) ==
    CHOOSE p \in cells :
        \A q \in cells : p[1] < q[1] \/ (p[1] = q[1] /\ p[2] <= q[2])

RECURSIVE ScanTable(_, _, _, _, _)
(* "for row_idx, row in enumerate(table.rows): for cell in row.cells": the
   rows are those the table had when the loop began (n0 of them) *)
ScanTable(tbl, r, c, n0, m) ==
    LET cells == BraceCells(tbl, r, c, n0)
    IN  IF cells = {} THEN Ok(tbl)
        ELSE LET p == FirstCell(cells)
                 res == ProcessCell(tbl, p[1], p[2], m)
             IN  IF ~res.ok THEN res ELSE ScanTable(res.val, p[1], p[2] + 1, n0, m)

RenderTable(tbl, m) == ScanTable(tbl, 1, 1, Len(tbl), m)

(* replace_placeholders: the document saved, or the exception that left it *)
ReplacePlaceholders(d, m) ==
    LET ps == [i \in 1..Len(d.paragraphs) |-> ParagraphPass(d.paragraphs[i], m)]
        ts == [i \in 1..Len(d.tables) |-> RenderTable(d.tables[i], m)]
    IN  IF \E i \in 1..Len(ts) : ~ts[i].ok
        THEN Raise("Exception", <<"render">>)
        ELSE Ok([paragraphs |-> ps, tables |-> [i \in 1..Len(ts) |-> ts[i].val]])

(* Inputs: templates and records *)
Tok1(k) == <<"{", k, "}">>
Tok2(md, k) == <<"{", md, ":", k, "}">>

ParPieces ==
    {<<"a">>, <<"{">>, <<"}">>,
     Tok1("summary"), Tok1("president"), Tok1("nokey"), Tok1("__class__"),
     Tok2("count", "tasks"), Tok2("count", "participants"), Tok2("count", "summary"),
     Tok2("tableNum", "participants"), Tok2("zz", "tasks"),
     <<"{", "count", ":">>, <<"tasks", "}">>}

(* paragraphs of up to MaxRuns runs; one of more than two runs holds a plain run *)
ParagraphInputs ==
    {p \in SeqsUpTo(ParPieces, MaxRuns) \ {<<>>} :
        Len(p) <= 2 \/ \E i \in 1..Len(p) : p[i] = <<"a">>}

Cell(t) == <<t>>

PlainRow == <<Cell(<<"a">>), Cell(<<"b">>)>>

RowInputs ==
    {PlainRow,
     <<Cell(<<"{">>), Cell(<<"}">>)>>,
     <<Cell(<<"a">> \o Tok2("count", "tasks")), <<>>>>,
     <<Cell(Tok1("nokey")), Cell(Tok1("president"))>>,
     <<Cell(Tok2("zz", "tasks")), Cell(Tok2("count", "summary"))>>,
     <<Cell(Tok2("tableNum", "participants")), Cell(<<"a">>)>>,
     <<Cell(<<"a">>), <<<<"{", "tableNum", ":">>, <<"participants", "}">>>>, <<>>>>,
     <<Cell(Tok2("tableNum", "tasks")), Cell(<<"a">>)>>,
     <<Cell(Tok2("tableBig", "tasks")), Cell(<<"a">>), Cell(<<"a">>), Cell(<<"a">>),
       Cell(<<"a">>)>>,
     <<Cell(Tok2("tableBig", "hypotheses")), Cell(<<"a">>)>>,
     <<Cell(Tok2("tableNum", "summary")), Cell(<<"a">>)>>,
     <<Cell(Tok2("tableNum", "nokey")), Cell(<<"a">>)>>,
     <<Cell(Tok2("tableBig", "president")), Cell(<<"a">>)>>,
     <<Cell(Tok2("tableBig", "participants")), Cell(<<"a">>)>>,
     <<Cell(Tok2("count", "tasks")), Cell(Tok2("tableNum", "participants"))>>}

(* tables of up to MaxRows rows; one of more than two rows holds a plain row *)
TableInputs ==
    {t \in SeqsUpTo(RowInputs, MaxRows) \ {<<>>} :
        Len(t) <= 2 \/ \E i \in 1..Len(t) : t[i] = PlainRow}

DocInputs ==
    {[paragraphs |-> <<p>>, tables |-> <<>>] : p \in ParagraphInputs}
    \cup {[paragraphs |-> <<>>, tables |-> <<t>>] : t \in TableInputs}
    \cup {[paragraphs |-> <<<<Tok1("summary")>>, <<<<"a">>, <<"{">>>>>>,
           tables |-> <<<<r>>, <<r>>>>] : r \in RowInputs}

Names == <<"p", "q", "r", "u">>
NthTask(i) ==
    [nazvanie |-> <<"T", Digit(i)>>, opisanie |-> <<"D", Digit(i)>>,
     sut_zadachi |-> <<"E", Digit(i)>>, kto_vypolnyaet |-> <<Names[i]>>,
     srok |-> <<"S", Digit(i)>>]

MkMeeting(np, nt, pres) ==
    [transcript |-> JStr(<<"t">>),
     summary |-> JStr(<<"s", "m">>),
     tasks |-> JList([i \in 1..nt |-> JDict(NthTask(i))]),
     hypotheses |-> JList(<<JDict([hypothesis |-> <<"h">>, status |-> <<"v">>])>>),
     decisions |-> JList(<<JStr(<<"c">>)>>),
     participants |-> JList([i \in 1..np |-> JStr(<<Names[i]>>)]),
     president |-> pres,
     secretary |-> JStr(<<>>),
     absent |-> JList(<<>>)]

(* records with every pair of list lengths; the president is unknown (None)
   in those with as many participants as tasks; and a record whose summary
   reads like a placeholder *)
MeetingInputs ==
    {MkMeeting(np, nt, IF np = nt THEN JNull ELSE JStr(<<"P">>)) :
        np \in 0..MaxItems, nt \in 0..MaxItems}
    \cup {[MkMeeting(1, 0, JStr(<<"P">>)) EXCEPT !.summary = JStr(Tok1("president"))]}

AnalyzerOff ==
    /\ aPc = "off"
    /\ transcript = <<>>
    /\ response = NoResponse
    /\ analysis = NoAnalysis
    /\ engineCalls = 0
    /\ analyzeRaised = FALSE
    /\ valid = "none"

InitRender ==
    /\ AnalyzerOff
    /\ PublishOff
    /\ FindOff
    /\ DueOff
    /\ SecretaryOff
    /\ BotOff
    /\ TranscriberOff
    /\ rPc = "ready"
    /\ doc \in DocInputs
    /\ template = doc
    /\ meeting \in MeetingInputs
    /\ renders = 0

(* replace_placeholders(output_path, meeting, docx_path) on the document; a
   later run reads what the earlier one saved *)
Render ==
    /\ rPc \in {"ready", "rendered"}
    /\ renders < MaxRenders
    /\ LET res == ReplacePlaceholders(doc, meeting)
       IN  IF res.ok
           THEN /\ doc' = res.val
                /\ rPc' = "rendered"
           ELSE /\ doc' = doc
                /\ rPc' = "failed"
    /\ template' = doc
    /\ renders' = renders + 1
    /\ UNCHANGED <<meeting, analyzerVars, publishVars, findVars, dueVars, secretaryVars,
                   botVars,
                   transcriberVars>>

NextRender == Render

SpecRender == InitRender /\ [][NextRender]_vars

----------------------------------------------------------------------------
(* Claims about the renderer, checked under SpecRender.  In a state with    *)
(* rPc = "rendered", template is what the last run read and doc what it     *)
(* saved.                                                                   *)

(* text t holds the token tok at position i and opens no other placeholder *)
HoldsOnly(t, tok, i) ==
    /\ i + Len(tok) - 1 <= Len(t)
    /\ SubSeq(t, i, i + Len(tok) - 1) = tok
    /\ \A j \in 1..Len(t) : t[j] = "{" => j = i

(* t with the token at position i replaced by repl *)
Replaced(t, tok, i, repl) ==
    SubSeq(t, 1, i - 1) \o repl \o SubSeq(t, i + Len(tok), Len(t))

MarkerNames == {"tableNum", "tableBig"}

(* the positions of text t where a row-expansion marker opens *)
MarkersIn(t) ==
    {i \in 1..Len(t) : t[i] = "{" /\ i < Len(t) /\ t[i + 1] \in MarkerNames}

RowMarkerCells(row) == {c \in 1..Len(row) : MarkersIn(Concat(row[c])) # {}}

ListValued(m) == {f \in FieldNames : m[f].tag = "list"}

(* C5: for every record and every list-valued field, a {count:field}
   placeholder in a plain paragraph or in a table cell (of a row that no
   expansion marker consumes) is replaced by the decimal string of the
   field's length, "0" for an empty list. *)
C5_CountIsDecimalLength ==
    rPc = "rendered" =>
        \A f \in ListValued(meeting) :
            LET tok == <<"{", "count", ":", f, "}">>
                dec == <<ToString(Len(meeting[f].val))>>
            IN  /\ \A p \in 1..Len(template.paragraphs) :
                      LET t == Concat(template.paragraphs[p])
                      IN  \A i \in 1..Len(t) :
                              HoldsOnly(t, tok, i) =>
                                  Concat(doc.paragraphs[p]) = Replaced(t, tok, i, dec)
                /\ \A tb \in 1..Len(template.tables) :
                      \A r \in 1..Len(template.tables[tb]) :
                          RowMarkerCells(template.tables[tb][r]) = {} =>
                              \A c \in 1..Len(template.tables[tb][r]) :
                                  LET t == Concat(template.tables[tb][r][c])
                                  IN  \A i \in 1..Len(t) :
                                          HoldsOnly(t, tok, i) =>
                                              Concat(doc.tables[tb][r][c])
                                                  = Replaced(t, tok, i, dec)

C5_Witness ==
    /\ rPc = "rendered"
    /\ meeting.tasks = JList(<<>>)
    /\ Len(meeting.participants.val) = 2
    /\ template.paragraphs = <<<<<<"{", "count", ":">>, <<"tasks", "}">>>>>>
    /\ doc.paragraphs = <<<<<<"0">>, <<>>>>>>

C5_WitnessCell ==
    /\ rPc = "rendered"
    /\ Len(meeting.tasks.val) = 2
    /\ template.tables = <<<<<<Cell(<<"a", "{", "count", ":", "tasks", "}">>), <<>>>>>>>>
    /\ doc.tables = <<<<<<Cell(<<"a", "2">>), <<>>>>>>>>

(* C6: for every key that is not a field of the record, get_value returns the
   sentinel, and a direct {key} placeholder for such a key is replaced by the
   sentinel (never by the empty string, never left in place). *)
C6_UnknownKeyGivesSentinel ==
    rPc = "rendered" =>
        \A p \in 1..Len(template.paragraphs) :
            LET t == Concat(template.paragraphs[p])
            IN  \A i \in 1..Len(t) :
                    (/\ i + 2 <= Len(t)
                     /\ IsWord(t[i + 1])
                     /\ t[i + 1] \notin FieldNames
                     /\ HoldsOnly(t, <<"{", t[i + 1], "}">>, i)) =>
                        /\ GetValue(meeting, <<t[i + 1]>>) = JStr(Sentinel)
                        /\ Concat(doc.paragraphs[p])
                              = Replaced(t, <<"{", t[i + 1], "}">>, i, Sentinel)

(* the rows of table tb of the template that hold a marker *)
MarkerRows(tbl) == {r \in 1..Len(tbl) : RowMarkerCells(tbl[r]) # {}}

(* row r of the table holds exactly one marker, in cell c, naming key k *)
SoleMarker(tbl, r, c, name, k) ==
    /\ RowMarkerCells(tbl[r]) = {c}
    /\ \E i \in 1..Len(Concat(tbl[r][c])) :
          /\ MarkersIn(Concat(tbl[r][c])) = {i}
          /\ i + 4 <= Len(Concat(tbl[r][c]))
          /\ SubSeq(Concat(tbl[r][c]), i, i + 4) = <<"{", name, ":", k, "}">>

AllDicts(l) == \A i \in 1..Len(l) : l[i].tag = "dict"

(* where the row of item i of an expansion of row r is: row r itself for the
   first item, and the (i-1)-th row added to a table of n0 rows for the others *)
RowOfItem(r, n0, i) == IF i = 1 THEN r ELSE n0 + i - 1

(* C7: for every table row holding a row-expansion marker over a list of
   N >= 1 items the rendered table has exactly N rows for that expansion, the
   i-th populated from the i-th item in list order; for N = 1 the row count is
   unchanged.  (tableBig is taken over a list of records.) *)
C7_ExpansionGivesNRows ==
    rPc = "rendered" =>
        \A tb \in 1..Len(template.tables) :
            LET tbl == template.tables[tb]
                out == doc.tables[tb]
                n0 == Len(tbl)
                marked == MarkerRows(tbl)
            IN  \A r \in marked :
                    (\A q \in marked : r <= q) =>
                        \A c \in RowMarkerCells(tbl[r]), k \in ListValued(meeting) :
                            LET items == meeting[k].val
                                N == Len(items)
                            IN  /\ (N >= 1 /\ SoleMarker(tbl, r, c, "tableNum", k)) =>
                                      /\ Len(out) >= n0 + N - 1
                                      /\ marked = {r} => Len(out) = n0 + N - 1
                                      /\ \A i \in 1..N :
                                            Concat(out[RowOfItem(r, n0, i)][c])
                                                = StrOf(items[i])
                                /\ (/\ N >= 1
                                    /\ AllDicts(items)
                                    /\ SoleMarker(tbl, r, c, "tableBig", k)) =>
                                      /\ Len(out) >= n0 + N - 1
                                      /\ marked = {r} => Len(out) = n0 + N - 1
                                      /\ \A i \in 1..N :
                                            LET row == out[RowOfItem(r, n0, i)]
                                            IN  /\ Concat(row[1]) = <<ToString(i)>>
                                                /\ Len(row) >= 2 /\ k = "tasks" =>
                                                      Concat(row[2])
                                                          = items[i].val.sut_zadachi

C7_Witness ==
    /\ rPc = "rendered"
    /\ Len(meeting.participants.val) = 2
    /\ template.tables =
          <<<<<<Cell(Tok2("tableNum", "participants")), Cell(<<"a">>)>>,
              <<Cell(<<"a">>), Cell(<<"b">>)>>>>>>
    /\ Len(doc.tables[1]) = 3
    /\ doc.tables[1][1] = <<Cell(<<"p">>), Cell(<<"p">>)>>
    /\ doc.tables[1][3] = <<Cell(<<"q">>), Cell(<<"q">>)>>

RECURSIVE OnePass(_, _, _)
(* one pass over text t from position i, left to right: a placeholder that
   opens at the position is replaced by its value and the pass goes on after
   the placeholder; any other lexeme is kept *)
OnePass(t, i, m) ==
    IF i > Len(t) THEN <<>>
    ELSE IF MatchAt(t, i).ok
    THEN ReplaceMatch(MatchAt(t, i), m) \o OnePass(t, MatchAt(t, i).last + 1, m)
    ELSE <<t[i]>> \o OnePass(t, i + 1, m)

(* text t holds a placeholder of the grammar {word} or {word:word} *)
HasPlaceholder(t) == \E i \in 1..Len(t) : MatchAt(t, i).ok

(* C23: for every plain paragraph whose concatenated run text contains a
   placeholder, after rendering the first run holds the result of one
   left-to-right substitution pass over the concatenated text of all runs,
   every other run is empty, and substituted text is not scanned again. *)
C23_FirstRunHoldsOnePass ==
    rPc = "rendered" =>
        \A p \in 1..Len(template.paragraphs) :
            LET par == template.paragraphs[p]
                out == doc.paragraphs[p]
            IN  HasPlaceholder(Concat(par)) =>
                    /\ Len(out) = Len(par)
                    /\ out[1] = OnePass(Concat(par), 1, meeting)
                    /\ \A i \in 2..Len(out) : out[i] = <<>>

C23_Witness ==
    /\ rPc = "rendered"
    /\ renders = 1
    /\ meeting.summary = JStr(<<"{", "president", "}">>)
    /\ template.paragraphs = <<<<<<"{", "summary", "}">>, <<"a">>>>>>
    /\ doc.paragraphs = <<<<<<"{", "president", "}", "a">>, <<>>>>>>

(* the placeholder that opens at position i of text t *)
TokenAt(t, i) == SubSeq(t, i, MatchAt(t, i).last)

(* C24: no placeholder {word} or {word:word} of a plain paragraph of the
   template is still there after rendering (stated for paragraphs with one
   placeholder): it has been replaced by a value or by the sentinel, also a
   {tableNum:key} or {tableBig:key} over a list-valued field. *)
C24_NoPlaceholderLeftInParagraphs ==
    rPc = "rendered" =>
        \A p \in 1..Len(template.paragraphs) :
            LET t == Concat(template.paragraphs[p])
                out == Concat(doc.paragraphs[p])
            IN  \A i \in 1..Len(t) :
                    (MatchAt(t, i).ok /\ HoldsOnly(t, TokenAt(t, i), i)) =>
                        ~(/\ Len(out) >= MatchAt(t, i).last
                          /\ SubSeq(out, i, MatchAt(t, i).last) = TokenAt(t, i))

(* no cell of the row has a "{" *)
PlainCells(row) == \A c \in 1..Len(row) : ~HasBrace(Concat(row[c]))

(* C22: when the only marker row r of a table is followed by other rows and
   its marker expands a list of N >= 2 items, the rows of items 2..N come
   right after row r, in item order, and the rows that followed row r come
   after them, untouched when they hold no placeholder. *)
C22_ClonesFollowMarkerRow ==
    rPc = "rendered" =>
        \A tb \in 1..Len(template.tables) :
            LET tbl == template.tables[tb]
                out == doc.tables[tb]
                n0 == Len(tbl)
            IN  \A r \in MarkerRows(tbl) :
                    \A c \in RowMarkerCells(tbl[r]), k \in ListValued(meeting) :
                        LET items == meeting[k].val
                            N == Len(items)
                        IN  (/\ MarkerRows(tbl) = {r}
                             /\ r < n0
                             /\ N >= 2
                             /\ SoleMarker(tbl, r, c, "tableNum", k)) =>
                                /\ Len(out) = n0 + N - 1
                                /\ \A i \in 2..N :
                                      Concat(out[r + i - 1][c]) = StrOf(items[i])
                                /\ \A j \in 1..(n0 - r) :
                                      PlainCells(tbl[r + j]) => out[r + N - 1 + j] = tbl[r + j]

(* the content of a record as the row's second column is to show it: the
   essence, else the hypothesis text under the code's second key, else the
   statement of a hypothesis shaped as the extraction schema shapes it *)
ContentOf(d) ==
    IF "sut_zadachi" \in DOMAIN d THEN d["sut_zadachi"]
    ELSE IF "gipoteza" \in DOMAIN d THEN d["gipoteza"]
    ELSE IF "hypothesis" \in DOMAIN d THEN d["hypothesis"]
    ELSE <<>>

(* C25: when a {tableBig:key} marker in the last row of a table expands a list
   of records, the row of record i has the 1-based index i in its first column
   and the record's essence in its content column, or the hypothesis statement
   when the record has no essence, as for the hypotheses the extraction schema
   shapes. *)
C25_BigRowsHoldIndexAndContent ==
    rPc = "rendered" =>
        \A tb \in 1..Len(template.tables) :
            LET tbl == template.tables[tb]
                out == doc.tables[tb]
                r == Len(tbl)
            IN  \A c \in 1..Len(tbl[r]), k \in ListValued(meeting) :
                    LET items == meeting[k].val
                    IN  (/\ MarkerRows(tbl) = {r}
                         /\ SoleMarker(tbl, r, c, "tableBig", k)
                         /\ Len(tbl[r]) >= 2
                         /\ AllDicts(items)) =>
                            /\ Len(out) = r + Len(items) - (IF items = <<>> THEN 0 ELSE 1)
                            /\ \A i \in 1..Len(items) :
                                  /\ Concat(out[r + i - 1][1]) = Decimal(i)
                                  /\ Concat(out[r + i - 1][2]) = ContentOf(items[i].val)

(* the document holds one placeholder only: a modifier placeholder whose key
   names a missing field or a field whose value is not a list *)
TextsOfDoc(d) ==
    {Concat(d.paragraphs[p]) : p \in 1..Len(d.paragraphs)}
    \cup UNION {UNION {{Concat(d.tables[tb][r][c]) : c \in 1..Len(d.tables[tb][r])} :
                          r \in 1..Len(d.tables[tb])} : tb \in 1..Len(d.tables)}

BadModifierAt(t, i) ==
    /\ i + 4 <= Len(t)
    /\ IsWord(t[i + 1])
    /\ t[i + 2] = ":"
    /\ IsWord(t[i + 3])
    /\ HoldsOnly(t, <<"{", t[i + 1], ":", t[i + 3], "}">>, i)
    /\ GetValue(meeting, <<t[i + 3]>>).tag # "list"

OnlyBadModifiers(d) ==
    \A t \in TextsOfDoc(d) :
        (\E j \in 1..Len(t) : t[j] = "{") => \E i \in 1..Len(t) : BadModifierAt(t, i)

RowCounts(d) == [tb \in 1..Len(d.tables) |-> Len(d.tables[tb])]

(* C8: a placeholder with a modifier (count, tableNum, tableBig or an unknown
   one) whose key names a missing field or a field that is not a list, in a
   paragraph or in a table cell: rendering completes without raising, the
   placeholder resolves to the sentinel, and no rows are added. *)
C8_BadModifierGivesSentinel ==
    (renders >= 1 /\ OnlyBadModifiers(template)) =>
        /\ rPc = "rendered"
        /\ RowCounts(doc) = RowCounts(template)
        /\ \A tb \in 1..Len(template.tables) :
              \A r \in 1..Len(template.tables[tb]) :
                  \A c \in 1..Len(template.tables[tb][r]) :
                      LET t == Concat(template.tables[tb][r][c])
                      IN  \A i \in 1..Len(t) :
                              BadModifierAt(t, i) =>
                                  Concat(doc.tables[tb][r][c])
                                      = Replaced(t, SubSeq(t, i, i + 4), i, Sentinel)
        /\ \A p \in 1..Len(template.paragraphs) :
              LET t == Concat(template.paragraphs[p])
              IN  \A i \in 1..Len(t) :
                      BadModifierAt(t, i) =>
                          Concat(doc.paragraphs[p])
                              = Replaced(t, SubSeq(t, i, i + 4), i, Sentinel)

AllWords(s, a, b) == a <= b /\ \A x \in a..b : IsWord(s[x])

(* text s holds a token of the placeholder grammar, {word} or {word:word} *)
HasToken(s) ==
    \E i \in 1..Len(s), j \in 1..Len(s) :
        /\ s[i] = "{"
        /\ s[j] = "}"
        /\ \/ AllWords(s, i + 1, j - 1)
           \/ \E k \in (i + 2)..(j - 2) :
                 s[k] = ":" /\ AllWords(s, i + 1, k - 1) /\ AllWords(s, k + 1, j - 1)

FullySubstituted(d) == \A t \in TextsOfDoc(d) : ~HasToken(t)

(* the text of every paragraph and of every cell, row by row *)
TextOf(d) ==
    [paragraphs |-> [p \in 1..Len(d.paragraphs) |-> Concat(d.paragraphs[p])],
     tables |-> [tb \in 1..Len(d.tables) |->
                    [r \in 1..Len(d.tables[tb]) |->
                        [c \in 1..Len(d.tables[tb][r]) |-> Concat(d.tables[tb][r][c])]]]]

(* C9: running replace_placeholders on a document in which no placeholder
   token remains, with any record, leaves the text of every paragraph and
   table cell and the number of rows of every table unchanged. *)
C9_IdempotentOnSubstituted ==
    [][(FullySubstituted(doc) /\ renders' = renders + 1) =>
          (rPc' = "rendered" /\ TextOf(doc') = TextOf(doc))]_vars

C9_Witness ==
    /\ rPc = "rendered"
    /\ renders = 1
    /\ template.paragraphs = <<<<<<"a">>, <<"{">>>>>>
    /\ doc.paragraphs = <<<<<<"a", "{">>, <<>>>>>>

C9_WitnessRerun ==
    /\ rPc = "rendered"
    /\ renders = 2
    /\ FullySubstituted(template)
    /\ template.tables # <<>>
    /\ \E t \in TextsOfDoc(template) : HasBrace(t)
    /\ TextOf(doc) = TextOf(template)

----------------------------------------------------------------------------
(* The publisher (weeek_integration.py).  Every API call goes through       *)
(* _make_request; the model keeps the requests issued, in order, and lets    *)
(* the tracker decide which of them fail.                                    *)

Req(kind, i) == [kind |-> kind, index |-> i]

Done(v, log) == [ok |-> TRUE, val |-> v, log |-> log]
Fail(e, log) == [ok |-> FALSE, exc |-> e, log |-> log]

(* _make_request: the request is issued, then raise_for_status may raise *)
MakeRequest(kind, i, fails, log) ==
    IF fails THEN Fail("RequestException", Append(log, Req(kind, i)))
    ELSE Done(Req(kind, i), Append(log, Req(kind, i)))

(* hasattr of a MeetingAnalysis: its dataclass fields *)
HasAttribute(a, name) == name \in DOMAIN a

(* the first exception raised while the description f-string of
   create_meeting_project is evaluated, "none" if it is built *)
ProjectDescriptionError(a) ==
    IF a.participants.tag # "list" THEN "TypeError"
    ELSE IF ~HasAttribute(a, "technical_areas") THEN "AttributeError"
    ELSE IF \E f \in {"tasks", "decisions", "hypotheses"} : a[f].tag # "list"
    THEN "TypeError"
    ELSE "none"

(* create_meeting_project: the description, then POST tm/projects *)
CreateMeetingProject(a, trk, log) ==
    IF ProjectDescriptionError(a) # "none" THEN Fail(ProjectDescriptionError(a), log)
    ELSE MakeRequest("project", 0, ~trk.create, log)

(* get_project_by_id: GET tm/projects/{id}; a failure is swallowed into None *)
GetProjectById(trk, log) ==
    Done(IF trk.project = "found" THEN JDict([id |-> <<"7">>])
         ELSE IF trk.project = "empty" THEN JDict(<<>>)
         ELSE JNull,
         Append(log, Req("get_project", 0)))

(* create_meeting_board: len(analysis.tasks), then POST .../boards *)
CreateMeetingBoard(a, trk, log) ==
    IF a.tasks.tag # "list" THEN Fail("TypeError", log)
    ELSE MakeRequest("board", 0, ~trk.board, log)

(* the hypotheses whose line of the summary cannot be built: hyp["hypothesis"] *)
BadHypotheses(l) ==
    {i \in 1..Len(l) : l[i].tag # "dict" \/ "hypothesis" \notin DOMAIN l[i].val}

(* the first exception raised while the description f-string of
   create_summary_task is evaluated, "none" if it is built *)
SummaryDescriptionError(a) ==
    IF a.decisions.tag # "list" THEN "TypeError"
    ELSE IF a.hypotheses.tag # "list" THEN "TypeError"
    ELSE IF BadHypotheses(a.hypotheses.val) # {}
    THEN (IF a.hypotheses.val[Least(BadHypotheses(a.hypotheses.val))].tag # "dict"
          THEN "TypeError" ELSE "KeyError")
    ELSE IF ~HasAttribute(a, "technical_areas") THEN "AttributeError"
    ELSE "none"

(* create_summary_task: the description is built before the try block, then
   create_task posts it *)
CreateSummaryTask(a, trk, log) ==
    IF SummaryDescriptionError(a) # "none" THEN Fail(SummaryDescriptionError(a), log)
    ELSE MakeRequest("summary", 0, 0 \in trk.failing, log)

NotAssigned == <<"Ne", " ", "naznachen">>

UpperCase == <<"A", "E", "L", "N", "P", "X", "Z">>
LowerCase == <<"a", "e", "l", "n", "p", "x", "z">>

(* a variant of str.lower that leaves the text as it is *)
LowerNone(t) == t

(* str.lower, character by character *)
Lower(t) ==
    [i \in 1..Len(t) |->
        IF \E k \in 1..Len(UpperCase) : UpperCase[k] = t[i]
        THEN LowerCase[CHOOSE k \in 1..Len(UpperCase) : UpperCase[k] = t[i]]
        ELSE t[i]]

(* get_workspace_members: a failed listing gives no members *)
WorkspaceMembers(trk) == IF trk.members.ok THEN trk.members.list ELSE <<>>

(* member.get(key, ""): the default stands in for a missing key only *)
MemberGet(mb, key) == IF mb[key].tag = "absent" THEN JStr(<<>>) ELSE mb[key]

(* one turn of the loop over the members: "email" or "name" when the member
   is returned, "none" when the loop goes on, "raise" when .lower() is called
   on a None *)
MemberMatch(mb, nameLower) ==
    LET email == MemberGet(mb, "email")
        first == MemberGet(mb, "firstName")
        last == MemberGet(mb, "lastName")
    IN  IF email.tag # "str" THEN "raise"
        ELSE IF Lower(email.val) = nameLower THEN "email"
        ELSE IF first.tag # "str" \/ last.tag # "str" THEN "raise"
        ELSE IF \/ Lower(first.val) = nameLower
                \/ Lower(last.val) = nameLower
                \/ Strip(Lower(first.val) \o <<" ">> \o Lower(last.val)) = nameLower
             THEN "name"
             ELSE "none"

(* the loop of find_user_by_name over the listed members: the index of the
   member returned (0 for None), or the AttributeError of the first turn that
   raises before any member is returned *)
FindUser(members, name) ==
    LET decided == {k \in 1..Len(members) : MemberMatch(members[k], Lower(name)) # "none"}
    IN  IF decided = {} THEN Ok(0)
        ELSE IF MemberMatch(members[Least(decided)], Lower(name)) = "raise"
        THEN Raise("AttributeError", <<"'NoneType' object has no attribute 'lower'">>)
        ELSE Ok(Least(decided))

(* find_user_by_name(name) *)
FindUserByName(trk, name) == FindUser(WorkspaceMembers(trk), name)

RECURSIVE TaskLoop(_, _, _, _, _, _)
(* "for i, task_data in enumerate(analysis.tasks)": a failure of one task
   (of the member lookup or of the creation request) is recorded and the loop
   goes on; an item that is no dict fails in the handler too (task_data.get)
   and ends the loop *)
TaskLoop(items, i, trk, created, failed, log) ==
    IF i > Len(items) THEN Done([created |-> created, failed |-> failed], log)
    ELSE IF items[i].tag # "dict" THEN Fail("AttributeError", log)
    ELSE LET d == items[i].val
             name == IF "kto_vypolnyaet" \in DOMAIN d THEN d.kto_vypolnyaet ELSE <<>>
             lookup == name # <<>> /\ name # NotAssigned
             user == IF lookup THEN FindUserByName(trk, name) ELSE Ok(0)
             log1 == IF lookup THEN Append(log, Req("members", i)) ELSE log
             assigned == user.ok /\ user.val # 0
             post == MakeRequest("task", i, i \in trk.failing, log1)
         IN  IF ~user.ok
             THEN TaskLoop(items, i + 1, trk, created, Append(failed, i), log1)
             ELSE IF post.ok
             THEN TaskLoop(items, i + 1, trk,
                           Append(created, [type |-> "task", index |-> i,
                                            assigned |-> assigned]),
                           failed, post.log)
             ELSE TaskLoop(items, i + 1, trk, created, Append(failed, i), post.log)

(* the try block of create_tasks_from_analysis: the summary task, then the
   tasks; whatever escapes becomes the "error" result *)
CreateTasksTry(a, trk, log) ==
    LET sm == CreateSummaryTask(a, trk, log)
    IN  IF ~sm.ok
        THEN Done([status |-> "error", message |-> sm.exc,
                   created |-> <<>>, failed |-> <<>>], sm.log)
        ELSE LET first == <<[type |-> "summary", index |-> 0, assigned |-> FALSE]>>
                 lp == TaskLoop(a.tasks.val, 1, trk, first, <<>>, sm.log)
             IN  IF ~lp.ok
                 THEN Done([status |-> "error", message |-> lp.exc,
                            created |-> first, failed |-> <<>>], lp.log)
                 ELSE IF \E f \in {"participants", "decisions", "hypotheses"} :
                             a[f].tag # "list"
                 THEN Done([status |-> "error", message |-> "TypeError",
                            created |-> lp.val.created, failed |-> lp.val.failed], lp.log)
                 ELSE Done([status |-> "success", message |-> "",
                            created |-> lp.val.created, failed |-> lp.val.failed], lp.log)

(* create_tasks_from_analysis(analysis, project_id) *)
CreateTasksFromAnalysis(a, pid, trk) ==
    LET pr == IF ~Truthy(pid) THEN CreateMeetingProject(a, trk, <<>>) ELSE Done(pid, <<>>)
    IN  IF ~pr.ok THEN pr
        ELSE LET gp == GetProjectById(trk, pr.log)
             IN  IF ~Truthy(gp.val) THEN Fail("ValueError", gp.log)
                 ELSE LET bd == CreateMeetingBoard(a, trk, gp.log)
                      IN  IF ~bd.ok THEN bd ELSE CreateTasksTry(a, trk, bd.log)

(* Inputs: records as the analyzer builds them, and tracker behaviours *)
Member(email, first, last) == [email |-> email, firstName |-> first, lastName |-> last]

PubBase == MkMeeting(1, 1, JNull)

PubRecords ==
    MeetingInputs
    \cup {[PubBase EXCEPT !.decisions = JNull],
          [PubBase EXCEPT !.participants = JNull],
          [PubBase EXCEPT !.hypotheses = JList(<<JDict([status |-> <<"v">>])>>)]}

ProjectIds == {JNull, JStr(<<"7">>)}

Trackers ==
    [project : {"found", "empty", "error"},
     create : BOOLEAN,
     board : BOOLEAN,
     failing : SUBSET (0..MaxItems),
     members : {[ok |-> FALSE, list |-> <<>>], [ok |-> TRUE, list |-> <<>>],
                [ok |-> TRUE, list |-> <<Member(JAbsent, JStr(<<"P">>), JAbsent)>>],
                [ok |-> TRUE, list |-> <<Member(JNull, JStr(<<"P">>), JAbsent)>>]}]

InitPublish ==
    /\ AnalyzerOff
    /\ RenderOff
    /\ FindOff
    /\ DueOff
    /\ SecretaryOff
    /\ BotOff
    /\ TranscriberOff
    /\ pPc = "ready"
    /\ pubAnalysis \in PubRecords
    /\ projectId \in ProjectIds
    /\ tracker \in Trackers
    /\ requests = <<>>
    /\ pubResult = [tag |-> "none"]

(* weeek_integration.create_tasks_from_analysis(analysis, project_id) *)
Publish ==
    /\ pPc = "ready"
    /\ LET res == CreateTasksFromAnalysis(pubAnalysis, projectId, tracker)
       IN  /\ requests' = res.log
           /\ IF res.ok
              THEN /\ pPc' = "returned"
                   /\ pubResult' = res.val
              ELSE /\ pPc' = "raised"
                   /\ pubResult' = [status |-> "raised", message |-> res.exc,
                                    created |-> <<>>, failed |-> <<>>]
    /\ UNCHANGED <<pubAnalysis, projectId, tracker, analyzerVars, renderVars, findVars,
                   dueVars, secretaryVars,
                   botVars,
                   transcriberVars>>

NextPublish == Publish

SpecPublish == InitPublish /\ [][NextPublish]_vars

----------------------------------------------------------------------------
(* find_user_by_name on its own: any listing of members, any name *)

Str(t) == JStr(t)

Ann == <<"A", "n", "n">>
Lee == <<"L", "e", "e">>
Mail == <<"a", "@", "x">>

MemberInputs ==
    {Member(Str(Mail), Str(Ann), Str(Lee)),
     Member(JAbsent, Str(Ann), JAbsent),
     Member(JAbsent, JAbsent, Str(Lee)),
     Member(Str(<<"A", "@", "X">>), Str(<<"a", "n">>), Str(<<"l", "e", "e">>)),
     Member(JNull, Str(Ann), Str(Lee)),
     Member(Str(Mail), JAbsent, JNull),
     Member(JAbsent, JAbsent, JAbsent)}

NameInputs ==
    {<<>>, <<"a", "n", "n">>, <<"A", "N", "N">>, <<"a", "n">>, <<"n", "n">>,
     <<"a", "n", "n", " ">>, <<"l", "e", "e">>, <<"L", "E", "e">>,
     <<"a", "n", "n", " ", "l", "e", "e">>, <<"A", "n", "n", " ", "L", "e", "e">>,
     <<"a", "n", "n", "l", "e", "e">>, <<"l", "e", "e", " ", "a", "n", "n">>,
     <<"a", "n", " ", "l", "e", "e">>, <<"a", "@", "x">>, <<"A", "@", "x">>, <<"a", "@">>}

InitFind ==
    /\ AnalyzerOff
    /\ RenderOff
    /\ PublishOff
    /\ DueOff
    /\ SecretaryOff
    /\ BotOff
    /\ TranscriberOff
    /\ fPc = "ready"
    /\ fMembers \in SeqsUpTo(MemberInputs, MaxMembers)
    /\ fName \in NameInputs
    /\ fResult = [tag |-> "none"]

(* find_user_by_name(name) over the listed members *)
FindStep ==
    /\ fPc = "ready"
    /\ fResult' = FindUser(fMembers, fName)
    /\ fPc' = "done"
    /\ UNCHANGED <<fMembers, fName, analyzerVars, renderVars, publishVars, dueVars, secretaryVars,
                   botVars,
                   transcriberVars>>

NextFind == FindStep

SpecFind == InitFind /\ [][NextFind]_vars

----------------------------------------------------------------------------
(* Claims about the member lookup, checked under SpecFind. *)

(* a and b are the same text, the case of the letters aside *)
EqualIgnoringCase(a, b) ==
    /\ Len(a) = Len(b)
    /\ \A i \in 1..Len(a) :
          \/ a[i] = b[i]
          \/ \E k \in 1..Len(UpperCase) : {a[i], b[i]} = {UpperCase[k], LowerCase[k]}

(* the values a name is compared with: the member's email, first name, last
   name, and "first last" when it has both *)
MemberValues(mb) ==
    {mb[f].val : f \in {f \in {"email", "firstName", "lastName"} : mb[f].tag = "str"}}
    \cup (IF mb.firstName.tag = "str" /\ mb.lastName.tag = "str"
          THEN {mb.firstName.val \o <<" ">> \o mb.lastName.val} ELSE {})

NamedBy(mb, name) == \E v \in MemberValues(mb) : EqualIgnoringCase(v, name)

NoNullField(members) ==
    \A k \in 1..Len(members) :
        \A f \in {"email", "firstName", "lastName"} : members[k][f].tag # "null"

(* C13: find_user_by_name returns a member exactly when the name equals, case
   aside and in full, that member's email, first name, last name or
   "first last" (the first such member in listing order), and none for a name
   that is only a part or other near match of those.  Stated for a non-empty
   name and members whose fields are strings or missing. *)
C13_LookupIsExactMatch ==
    (fPc = "done" /\ fName # <<>> /\ NoNullField(fMembers)) =>
        LET named == {k \in 1..Len(fMembers) : NamedBy(fMembers[k], fName)}
        IN  fResult = Ok(IF named = {} THEN 0 ELSE Least(named))

C13_Witness ==
    /\ fPc = "done"
    /\ fName = <<"A", "n", "n", " ", "L", "e", "e">>
    /\ Len(fMembers) = 2
    /\ fMembers[1] = Member(JAbsent, JStr(Ann), JAbsent)
    /\ fMembers[2] = Member(JStr(<<"A", "@", "X">>), JStr(<<"a", "n">>), JStr(<<"l", "e", "e">>))
    /\ fResult = Ok(0)

C13_WitnessFound ==
    /\ fPc = "done"
    /\ fName = <<"A", "N", "N">>
    /\ Len(fMembers) = 2
    /\ fMembers[1] = Member(JAbsent, JAbsent, JStr(Lee))
    /\ fMembers[2] = Member(JStr(Mail), JStr(Ann), JStr(Lee))
    /\ fResult = Ok(2)

----------------------------------------------------------------------------
(* Claims about the publisher, checked under SpecPublish. *)

(* the tracker answers every request *)
TrackerHealthy ==
    /\ tracker.project = "found"
    /\ tracker.create
    /\ tracker.board
    /\ tracker.failing = {}

(* the task-creation requests issued, in order *)
IsCreation(rq) == rq.kind \in {"summary", "task"}
Creations == SelectSeq(requests, IsCreation)

(* C10: for every record handed to the publisher (the tracker answering every
   request), create_tasks_from_analysis issues exactly one summary-task
   creation, before any per-task creation, and then exactly one creation
   attempt per entry of tasks, in the order of tasks. *)
C10_SummaryThenTasksInOrder ==
    (pPc \in {"returned", "raised"} /\ TrackerHealthy /\ pubAnalysis.tasks.tag = "list") =>
        Creations = <<Req("summary", 0)>>
                        \o [i \in 1..Len(pubAnalysis.tasks.val) |-> Req("task", i)]

(* the tracker answers every request up to and including the summary task *)
TrackerAcceptsSummary ==
    /\ tracker.project = "found"
    /\ tracker.create
    /\ tracker.board
    /\ 0 \notin tracker.failing

(* every list field of the record is a list and every hypothesis a dict with
   its text: the record the extraction schema describes *)
WellFormedRecord(a) ==
    /\ \A f \in ListFields : a[f].tag = "list"
    /\ BadHypotheses(a.hypotheses.val) = {}
    /\ \A i \in 1..Len(a.tasks.val) : a.tasks.val[i].tag = "dict"

Finished == pPc \in {"returned", "raised"}

(* the indices of seq 1..n that are (not) in F, in increasing order *)
IndicesIn(n, F) == SelectSeq([i \in 1..n |-> i], LAMBDA i : i \in F)
IndicesOutside(n, F) == SelectSeq([i \in 1..n |-> i], LAMBDA i : i \notin F)

CreatedIndices == [k \in 1..Len(pubResult.created) |-> pubResult.created[k].index]

(* C11: for every task list and every subset F of its tasks whose creation
   fails while the summary task's creation is accepted, every task is still
   attempted, the created list holds the summary task plus exactly the tasks
   outside F, and the failed list one entry per task in F with its index. *)
C11_FailedTasksAreRecorded ==
    (Finished /\ TrackerAcceptsSummary /\ WellFormedRecord(pubAnalysis)) =>
        LET n == Len(pubAnalysis.tasks.val)
            F == tracker.failing \cap (1..n)
        IN  /\ pPc = "returned"
            /\ [k \in 1..Len(Creations) |-> Creations[k].index] = [k \in 1..(n + 1) |-> k - 1]
            /\ CreatedIndices = <<0>> \o IndicesOutside(n, F)
            /\ pubResult.failed = IndicesIn(n, F)

(* C12: the status is success whenever the summary task was created, even if
   every per-task creation failed; when the summary-task creation fails the
   status is error and no per-task creation is attempted. *)
C12_StatusFollowsSummaryTask ==
    (Finished /\ tracker.project = "found" /\ tracker.create /\ tracker.board
        /\ WellFormedRecord(pubAnalysis)) =>
        /\ pPc = "returned"
        /\ 0 \notin tracker.failing => pubResult.status = "success"
        /\ 0 \in tracker.failing =>
              /\ pubResult.status = "error"
              /\ \A k \in 1..Len(requests) : requests[k].kind # "task"

(* the assignee name of task i names no member of the listing the tracker
   gives (none at all when the listing fails) *)
AssigneeUnmatched(i) ==
    LET d == pubAnalysis.tasks.val[i].val
    IN  /\ "kto_vypolnyaet" \in DOMAIN d
        /\ d.kto_vypolnyaet # <<>>
        /\ \A k \in 1..Len(WorkspaceMembers(tracker)) :
              ~NamedBy(WorkspaceMembers(tracker)[k], d.kto_vypolnyaet)

(* C14: every task whose assignee name matches no workspace member (also when
   the member listing fails or members lack an email or name) is still
   created, without an assignee, and is recorded in created, not in failed. *)
C14_UnmatchedAssigneeStillCreated ==
    (Finished /\ TrackerAcceptsSummary /\ WellFormedRecord(pubAnalysis)) =>
        \A i \in 1..Len(pubAnalysis.tasks.val) :
            (i \notin tracker.failing /\ AssigneeUnmatched(i)) =>
                /\ \E k \in 1..Len(requests) : requests[k] = Req("task", i)
                /\ \E k \in 1..Len(pubResult.created) :
                      pubResult.created[k] = [type |-> "task", index |-> i, assigned |-> FALSE]
                /\ \A k \in 1..Len(pubResult.failed) : pubResult.failed[k] # i

(***************************************************************************)
(* Due dates: WeeekIntegration.parse_due_date (src/weeek_integration.py).  *)
(* A date string is a sequence of characters; Russian phrases are          *)
(* transliterated letter by letter, which keeps which phrase is contained  *)
(* in which.  A calendar date is <<year, month, day>>.                     *)
(***************************************************************************)

Chars(n) == IF n < 10 THEN <<"0", Digit(n)>> ELSE Decimal(n)

IsDigit(c) == c \in {"0", "1", "2", "3", "4", "5", "6", "7", "8", "9"}

DigitVal(c) == CHOOSE n \in 0..9 : Digit(n) = c

NoField == 0 - 1

(* strptime's %Y: exactly four digits *)
YearField(f) ==
    IF Len(f) = 4 /\ \A k \in 1..4 : IsDigit(f[k])
    THEN 1000 * DigitVal(f[1]) + 100 * DigitVal(f[2]) + 10 * DigitVal(f[3]) + DigitVal(f[4])
    ELSE NoField

(* strptime's %m, 1[0-2]|0[1-9]|[1-9], and %d, 3[0-1]|[1-2]\d|0[1-9]|[1-9]| [1-9]:
   one or two digits in 1..max, the day also as a space and a digit *)
NumField(f, max, spaced) ==
    IF Len(f) = 1 /\ IsDigit(f[1]) /\ f[1] # "0" THEN DigitVal(f[1])
    ELSE IF Len(f) = 2 /\ spaced /\ f[1] = " " /\ IsDigit(f[2]) /\ f[2] # "0"
    THEN DigitVal(f[2])
    ELSE IF /\ Len(f) = 2 /\ IsDigit(f[1]) /\ IsDigit(f[2])
            /\ 10 * DigitVal(f[1]) + DigitVal(f[2]) \in 1..max
    THEN 10 * DigitVal(f[1]) + DigitVal(f[2])
    ELSE NoField

MonthField(f) == NumField(f, 12, FALSE)

DayField(f) == NumField(f, 31, TRUE)

IsLeap(y) == y % 4 = 0 /\ (y % 100 # 0 \/ y % 400 = 0)

DaysIn(y, m) ==
    IF m = 2 THEN (IF IsLeap(y) THEN 29 ELSE 28)
    ELSE IF m \in {4, 6, 9, 11} THEN 30 ELSE 31

(* the three fields of s around the two separators, <<>> when s does not have
   exactly two of them *)
Fields(s, sep) ==
    LET at == {k \in 1..Len(s) : s[k] = sep}
    IN  IF Cardinality(at) # 2 THEN <<>>
        ELSE LET a == Least(at)
                 b == Least(at \ {a})
             IN  <<SubSeq(s, 1, a - 1), SubSeq(s, a + 1, b - 1), SubSeq(s, b + 1, Len(s))>>

NoDate == <<0, 0, 0>>

(* datetime.strptime(s, fmt): the date, or NoDate where it raises ValueError *)
Strptime(s, fmt) ==
    LET f == Fields(s, fmt.sep)
        y == IF f = <<>> THEN NoField ELSE YearField(f[fmt.year])
        m == IF f = <<>> THEN NoField ELSE MonthField(f[2])
        d == IF f = <<>> THEN NoField ELSE DayField(f[fmt.day])
    IN  IF y < 1 \/ m = NoField \/ d = NoField THEN NoDate
        ELSE IF d > DaysIn(y, m) THEN NoDate
        ELSE <<y, m, d>>

(* strftime('%Y-%m-%d'): month and day in two digits; the year in four digits
   or, where the C library does not pad %Y, in as many as it has *)
Strftime(date, padsYear) ==
    LET y == date[1]
        year == IF ~padsYear \/ y >= 1000 THEN Decimal(y)
                ELSE IF y >= 100 THEN <<"0">> \o Decimal(y)
                ELSE IF y >= 10 THEN <<"0", "0">> \o Decimal(y)
                ELSE <<"0", "0", "0">> \o Decimal(y)
    IN  year \o <<"-">> \o Chars(date[2]) \o <<"-">> \o Chars(date[3])

Iso == [sep |-> "-", year |-> 1, day |-> 3]
Dotted == [sep |-> ".", year |-> 3, day |-> 1]
Slashed == [sep |-> "/", year |-> 3, day |-> 1]

(* a variant: the slashed format is not tried *)
FormatsNoSlash == <<Iso, Dotted>>

Formats == <<Iso, Dotted, Slashed>>

NotSpecified == <<"N", "e", " ", "u", "k", "a", "z", "a", "n">>

Zavtra == <<"z", "a", "v", "t", "r", "a">>
Poslezavtra == <<"p", "o", "s", "l", "e">> \o Zavtra
Cherez == <<"c", "h", "e", "r", "e", "z", " ">>
CherezNedelyu == Cherez \o <<"n", "e", "d", "e", "l", "y", "u">>
CherezDveNedeli == Cherez \o <<"d", "v", "e", " ", "n", "e", "d", "e", "l", "i">>
CherezMesyac == Cherez \o <<"m", "e", "s", "y", "a", "c">>

(* relative_dates, in the order the dict is iterated *)
RelativeDates ==
    <<[phrase |-> Zavtra, days |-> 1],
      [phrase |-> Poslezavtra, days |-> 2],
      [phrase |-> CherezNedelyu, days |-> 7],
      [phrase |-> CherezDveNedeli, days |-> 14],
      [phrase |-> CherezMesyac, days |-> 30]>>

(* phrase in s *)
Contains(s, phrase) ==
    \E k \in 1..(Len(s) - Len(phrase) + 1) : SubSeq(s, k, k + Len(phrase) - 1) = phrase

(* date + timedelta(days = n) *)
RECURSIVE AddDays(_, _)
AddDays(date, n) ==
    LET y == date[1]
        m == date[2]
        d == date[3]
    IN  IF d + n <= DaysIn(y, m) THEN <<y, m, d + n>>
        ELSE AddDays(IF m = 12 THEN <<y + 1, 1, 1>> ELSE <<y, m + 1, 1>>,
                     n - (DaysIn(y, m) - d) - 1)

ParseDueDate(dateString, today, padsYear) ==
    LET parsing == {k \in 1..Len(Formats) : Strptime(dateString, Formats[k]) # NoDate}
        said == {k \in 1..Len(RelativeDates) :
                    Contains(Lower(dateString), RelativeDates[k].phrase)}
    IN  IF dateString = <<>> \/ dateString = NotSpecified THEN JNull
        ELSE IF parsing # {}
        THEN JStr(Strftime(Strptime(dateString, Formats[Least(parsing)]), padsYear))
        ELSE IF said # {}
        THEN JStr(Strftime(AddDays(today, RelativeDates[Least(said)].days), padsYear))
        ELSE JNull

(* -- inputs -- *)

Years == {999, 1900, 2023, 2024}
Months == {0, 1, 2, 4, 12, 13}
Days == {0, 1, 9, 28, 29, 30, 31, 32}
Styles == {"padded", "bare", "spaced"}

Year4(y) == IF y < 1000 THEN <<"0">> \o Decimal(y) ELSE Decimal(y)

Written(n, style, spaced) ==
    IF n >= 10 \/ style = "bare" THEN Decimal(n)
    ELSE IF style = "spaced" /\ spaced THEN <<" ", Digit(n)>>
    ELSE <<"0", Digit(n)>>

(* the date y-m-d written in format fmt *)
DateText(fmt, y, m, d, style) ==
    IF fmt.year = 1
    THEN Year4(y) \o <<fmt.sep>> \o Written(m, style, FALSE) \o <<fmt.sep>>
            \o Written(d, style, TRUE)
    ELSE Written(d, style, TRUE) \o <<fmt.sep>> \o Written(m, style, FALSE) \o <<fmt.sep>>
            \o Year4(y)

DateInputs ==
    {[kind |-> "date", text |-> DateText(fmt, y, m, d, style), fmt |-> fmt,
      date |-> <<y, m, d>>, style |-> style] :
        fmt \in {Iso, Dotted, Slashed}, y \in Years, m \in Months, d \in Days, style \in Styles}

Jan15 == <<"2", "0", "2", "4", "-", "0", "1", "-", "1", "5">>

(* strings that are no date: said is the index in RelativeDates of the phrase
   written in the text, 0 when there is none *)
OtherInputs ==
    {[kind |-> "other", text |-> RelativeDates[k].phrase, said |-> k, bare |-> TRUE] :
        k \in 1..Len(RelativeDates)}
    \cup {[kind |-> "other", text |-> <<"d", "o", " ">> \o RelativeDates[k].phrase \o <<"!">>,
           said |-> k, bare |-> FALSE] : k \in 1..Len(RelativeDates)}
    \cup {[kind |-> "other", text |-> <<"Z">> \o Tail(Zavtra), said |-> 1, bare |-> FALSE],
          [kind |-> "other", text |-> <<"P">> \o Tail(Poslezavtra), said |-> 2, bare |-> FALSE]}
    \cup {[kind |-> "other", text |-> t, said |-> 0, bare |-> FALSE] :
            t \in {<<>>, NotSpecified, Lower(NotSpecified), <<"a", "x">>,
                   Jan15 \o <<" ">>, <<" ">> \o Jan15, Tail(Jan15), Jan15 \o <<"5">>,
                   <<"1", "5", "-", "0", "1", "-", "2", "0", "2", "4">>,
                   <<"2", "0", "2", "4", "/", "0", "1", "/", "1", "5">>,
                   <<"2", "0", "2", "4", ".", "0", "1", ".", "1", "5">>,
                   <<"1", "5", ".", "0", "1", ".", "2", "4">>,
                   <<"1", "5", ".", "0", "1", "/", "2", "0", "2", "4">>,
                   <<"0", "0", "0", "0", "-", "0", "1", "-", "1", "5">>,
                   <<"z", "a", "v", "t", "r">>, Cherez}}

Todays == {<<2024, 1, 15>>, <<2024, 2, 28>>, <<2023, 2, 1>>, <<2023, 12, 31>>}

InitDueDate ==
    /\ AnalyzerOff
    /\ RenderOff
    /\ PublishOff
    /\ FindOff
    /\ SecretaryOff
    /\ BotOff
    /\ TranscriberOff
    /\ dPc = "ready"
    /\ dInput \in DateInputs \cup OtherInputs
    /\ dToday \in Todays
    /\ dPadsYear \in BOOLEAN
    /\ dResult = [tag |-> "none"]

DueDateStep ==
    /\ dPc = "ready"
    /\ dResult' = Ok(ParseDueDate(dInput.text, dToday, dPadsYear))
    /\ dPc' = "done"
    /\ UNCHANGED <<dInput, dToday, dPadsYear, analyzerVars, renderVars, publishVars, findVars,
                   secretaryVars, botVars,
                   transcriberVars>>

NextDueDate == DueDateStep

SpecDueDate == InitDueDate /\ [][NextDueDate]_vars

(***************************************************************************)
(* Claims about parse_due_date.                                            *)
(***************************************************************************)

(* y-m-d is a day of the calendar *)
CalendarDate(date) ==
    /\ date[1] >= 1
    /\ date[2] \in 1..12
    /\ date[3] >= 1
    /\ \/ date[3] <= 28
       \/ date[3] <= 30 /\ date[2] # 2
       \/ date[3] = 31 /\ date[2] \in {1, 3, 5, 7, 8, 10, 12}
       \/ date[3] = 29 /\ date[2] = 2 /\ date[1] \in {2024}

(* the date in YYYY-MM-DD form *)
IsoForm(date) ==
    Year4(date[1]) \o <<"-">> \o Written(date[2], "padded", FALSE) \o <<"-">>
        \o Written(date[3], "padded", FALSE)

(* the C library writes the year of the date in four digits *)
YearInFourDigits(date) == date[1] >= 1000 \/ dPadsYear

(* C15: parse_due_date gives a valid date written in one of the three formats
   (fields of one or two digits, as strptime reads them) back as the same
   date in YYYY-MM-DD form, an ISO input unchanged, wherever the C library
   writes the year in four digits; the empty string, the "unspecified"
   sentinel, an invalid date and any other string without a relative phrase
   give no due date; it never raises. *)
C15_DatesNormalizedElseNone ==
    dPc = "done" =>
        /\ dResult.ok
        /\ (dInput.kind = "date" /\ CalendarDate(dInput.date) /\ YearInFourDigits(dInput.date)) =>
              /\ dResult = Ok(JStr(IsoForm(dInput.date)))
              /\ (dInput.fmt = Iso /\ dInput.style = "padded") =>
                    dResult = Ok(JStr(dInput.text))
        /\ (dInput.kind = "date" /\ ~CalendarDate(dInput.date)) => dResult = Ok(JNull)
        /\ (dInput.kind = "other" /\ dInput.said = 0) => dResult = Ok(JNull)

C15_Witness ==
    /\ dPc = "done"
    /\ dInput.kind = "date"
    /\ dInput.fmt = Slashed
    /\ dInput.text = <<"2", "9", "/", "2", "/", "2", "0", "2", "4">>
    /\ dResult = Ok(JStr(<<"2", "0", "2", "4", "-", "0", "2", "-", "2", "9">>))

C15_WitnessNone ==
    /\ dPc = "done"
    /\ dInput.kind = "date"
    /\ dInput.date = <<2023, 2, 29>>
    /\ dResult = Ok(JNull)

(* C16: with the current date D, parse_due_date applied to a key of the
   relative-phrase table gives D plus that key's own offset, in ISO form. *)
C16_PhraseGivesItsOwnOffset ==
    (dPc = "done" /\ dInput.kind = "other" /\ dInput.said # 0 /\ dInput.bare) =>
        dResult = Ok(JStr(IsoForm(AddDays(dToday, RelativeDates[dInput.said].days))))

(***************************************************************************)
(* The secretary (meeting_secretary.py): construction of the pipeline and  *)
(* one run of process_meeting_audio, stage by stage.  The analyzer and the *)
(* publisher are the operators above.                                      *)
(***************************************************************************)

(* WeeekIntegration.__init__: _check_connection issues GET /user; a failed
   request or a status other than 200 is logged and raised again *)
WeeekInit(check, log) ==
    IF check = "ok" THEN Done(TRUE, Append(log, Req("user", 0)))
    ELSE Fail(IF check = "network" THEN "ConnectionError" ELSE "Exception",
              Append(log, Req("user", 0)))

(* TechnicalMeetingSecretary.__init__: the tracker is optional; an exception
   of WeeekIntegration(config.weeek) is caught and logged as a warning, and
   self.weeek_integration stays None *)
SecretaryInit(config) ==
    IF ~config.weeek THEN Done(FALSE, <<>>)
    ELSE LET w == WeeekInit(config.check, <<>>)
         IN  Done(w.ok, w.log)

(* publishing: "none" | "skipped" | "returned" | "raised", how stage 3 went;
   stages: the stages invoked so far, in the order of their invocation *)
NoRun ==
    [transcript |-> <<>>, analysis |-> NoAnalysis, weeek |-> JNull, publishing |-> "none",
     raisedAt |-> "none", stages |-> <<>>]

(* the run after a stage has been invoked *)
Invoked(run, stage) == [run EXCEPT !.stages = Append(@, stage)]

(* a variant: only the empty string counts as an empty transcript *)
EmptyTranscriptUnstripped(text) == text = <<>>

(* "not transcript.strip()" *)
EmptyTranscript(text) == Strip(text) = <<>>

(* the dict of the except block of process_meeting_audio *)
ErrorResult(exc) ==
    [status |-> "error", timed |-> TRUE, message |-> exc, analysis |-> JNull,
     weeek |-> JNull]

(* the first exception raised while the result dict is built, "none" if it is
   built *)
AssembleError(a) ==
    IF ~HasAttribute(a, "technical_areas") THEN "AttributeError"
    ELSE IF \E f \in {"tasks", "hypotheses", "decisions", "participants", "technical_areas"} :
                a[f].tag \notin {"list", "str", "dict"}
    THEN "TypeError"
    ELSE "none"

(* the dict returned by the try block of process_meeting_audio *)
SuccessResult(a, weeekResult) ==
    [status |-> "success", timed |-> TRUE, message |-> "",
     analysis |-> [f \in {"summary", "tasks", "hypotheses", "decisions", "participants"}
                     |-> a[f]],
     weeek |-> weeekResult]

(* -- inputs -- *)

SecretaryConfigs == [weeek : BOOLEAN, check : {"ok", "status", "network"}]

AudioOutcomes ==
    {Raise("Exception", <<"audio">>), Ok(<<>>), Ok(<<" ">>), Ok(<<"a">>)}

SecretaryPayloads ==
    [summary : {JStr(<<"s">>)}, tasks : TasksOpts,
     hypotheses : {JList(<<JStr(<<"x">>)>>)}, decisions : {JNull, JList(<<JStr(<<"x">>)>>)},
     participants : {JList(<<JStr(<<"x">>)>>)}, president : {JAbsent},
     secretary : {JAbsent}, absent : {JAbsent}]

SecretaryResponses ==
    {[kind |-> "api_error"], [kind |-> "bad_json"]}
    \cup {[kind |-> "object", payload |-> p] : p \in SecretaryPayloads}

SecretaryTrackers ==
    {t \in Trackers : /\ t.create /\ t.board
                      /\ t.failing \in {{}, {0}}
                      /\ t.members = [ok |-> TRUE, list |-> <<>>]}

InitSecretary ==
    /\ AnalyzerOff
    /\ RenderOff
    /\ PublishOff
    /\ FindOff
    /\ DueOff
    /\ BotOff
    /\ TranscriberOff
    /\ oPc = "unbuilt"
    /\ oEnv \in [config : SecretaryConfigs, mkdir : BOOLEAN, audio : AudioOutcomes,
                 response : SecretaryResponses, tracker : SecretaryTrackers,
                 projectId : ProjectIds]
    /\ oWeeek = FALSE
    /\ oCalls = <<>>
    /\ oRun = NoRun
    /\ oResult = [tag |-> "none"]

(* TechnicalMeetingSecretary(config) *)
Construct ==
    /\ oPc = "unbuilt"
    /\ LET made == SecretaryInit(oEnv.config)
       IN  /\ oPc' = IF made.ok THEN "idle" ELSE "setup_failed"
           /\ oWeeek' = (made.ok /\ made.val)
           /\ oCalls' = made.log
    /\ UNCHANGED <<oEnv, oRun, oResult, analyzerVars, renderVars, publishVars, findVars,
                   dueVars, botVars,
                   transcriberVars>>

(* the except block: the elapsed time is taken, the error result is built,
   saved and returned *)
Failed(run, stage, exc) ==
    /\ oPc' = "failed"
    /\ oRun' = [run EXCEPT !.raisedAt = stage]
    /\ oResult' = Ok(ErrorResult(exc))

(* process_meeting_audio is entered: start_time, then Path(output_dir).mkdir
   ahead of the try block *)
StartRun ==
    /\ oPc = "idle"
    /\ IF oEnv.mkdir
       THEN /\ oPc' = "transcribing"
            /\ oResult' = oResult
       ELSE /\ oPc' = "raised"
            /\ oResult' = Raise("OSError", <<"mkdir">>)
    /\ UNCHANGED <<oEnv, oWeeek, oCalls, oRun, analyzerVars, renderVars, publishVars,
                   findVars, dueVars, botVars,
                   transcriberVars>>

(* stage 1: transcribe_from_file, then the test for an empty transcript *)
Transcribe ==
    /\ oPc = "transcribing"
    /\ LET run == Invoked(oRun, "transcription")
       IN  IF ~oEnv.audio.ok THEN Failed(run, "transcription", oEnv.audio.exc)
           ELSE IF EmptyTranscript(oEnv.audio.val)
           THEN Failed(run, "transcription", "ValueError")
           ELSE /\ oPc' = "extracting"
                /\ oRun' = [run EXCEPT !.transcript = oEnv.audio.val]
                /\ oResult' = oResult
    /\ UNCHANGED <<oEnv, oWeeek, oCalls, analyzerVars, renderVars, publishVars, findVars,
                   dueVars, botVars,
                   transcriberVars>>

(* stage 2: analyze_transcript, then validate_analysis, whose verdict is only
   logged *)
Extract ==
    /\ oPc = "extracting"
    /\ LET got == AnalyzeResult(oRun.transcript, oEnv.response)
           run == Invoked(oRun, "extraction")
       IN  IF got.raised THEN Failed(run, "extraction", "Exception")
           ELSE IF ValidateAnalysis(got.rec) = "raise"
           THEN Failed(run, "extraction", "TypeError")
           ELSE /\ oPc' = "publishing"
                /\ oRun' = [run EXCEPT !.analysis = got.rec]
                /\ oResult' = oResult
    /\ UNCHANGED <<oEnv, oWeeek, oCalls, analyzerVars, renderVars, publishVars, findVars,
                   dueVars, botVars,
                   transcriberVars>>

(* stage 3: create_tasks_from_analysis when there is a tracker and a task; its
   exception becomes an "error" entry of the result, and the run goes on *)
PublishStage ==
    /\ oPc = "publishing"
    /\ IF oWeeek /\ Truthy(oRun.analysis.tasks)
       THEN LET res == CreateTasksFromAnalysis(oRun.analysis, oEnv.projectId, oEnv.tracker)
            IN  /\ oCalls' = oCalls \o res.log
                /\ oRun' = [Invoked(oRun, "publishing") EXCEPT
                              !.weeek = IF res.ok THEN [status |-> res.val.status]
                                        ELSE [status |-> "error"],
                              !.publishing = IF res.ok THEN "returned" ELSE "raised",
                              !.raisedAt = IF res.ok THEN "none" ELSE "publishing"]
       ELSE /\ oCalls' = oCalls
            /\ oRun' = [oRun EXCEPT !.weeek = [status |-> "skipped"],
                                    !.publishing = "skipped"]
    /\ oPc' = "assembling"
    /\ UNCHANGED <<oEnv, oWeeek, oResult, analyzerVars, renderVars, publishVars, findVars,
                   dueVars, botVars,
                   transcriberVars>>

(* stage 4: the elapsed time is taken and the result dict is built, saved and
   returned *)
Assemble ==
    /\ oPc = "assembling"
    /\ IF AssembleError(oRun.analysis) # "none"
       THEN Failed(oRun, "assembly", AssembleError(oRun.analysis))
       ELSE /\ oPc' = "done"
            /\ oRun' = oRun
            /\ oResult' = Ok(SuccessResult(oRun.analysis, oRun.weeek))
    /\ UNCHANGED <<oEnv, oWeeek, oCalls, analyzerVars, renderVars, publishVars, findVars,
                   dueVars, botVars,
                   transcriberVars>>

NextSecretary ==
    \/ Construct
    \/ StartRun
    \/ Transcribe
    \/ Extract
    \/ PublishStage
    \/ Assemble

SpecSecretary == InitSecretary /\ [][NextSecretary]_vars

(***************************************************************************)
(* Claims about the secretary.                                             *)
(***************************************************************************)

(* C17: when the identity check of the tracker fails while the pipeline is
   set up, the set-up fails: no secretary comes into existence, and no
   tracker request follows the failed check. *)
C17_FailedCheckIsFatal ==
    (oPc \notin {"off", "unbuilt"} /\ oEnv.config.weeek /\ oEnv.config.check # "ok") =>
        /\ oPc = "setup_failed"
        /\ oCalls = <<Req("user", 0)>>

(* the run is over: it returned or raised *)
RunOver == oPc \in {"done", "failed", "raised"}

(* C18: a run in which a stage raised ends by raising one normalized failure
   to the caller, never by returning a value, and never with the exception
   type of the stage. *)
C18_StageFailureIsReRaised ==
    (RunOver /\ oRun.raisedAt # "none") =>
        /\ oPc = "raised"
        /\ ~oResult.ok
        /\ oResult.exc = "ProcessingError"

(* C19: a run with a non-empty transcript and a record, whose publishing
   stage was skipped or returned, ends in done with a success result that
   carries the summary, tasks, hypotheses, decisions and participants of the
   record; a run ends in failed only if a stage raised. *)
C19_CleanRunEndsDone ==
    /\ (RunOver /\ oRun.publishing \in {"skipped", "returned"}) =>
          /\ oPc = "done"
          /\ oResult.ok
          /\ oResult.val.status = "success"
          /\ \A f \in {"summary", "tasks", "hypotheses", "decisions", "participants"} :
                oResult.val.analysis[f] = oRun.analysis[f]
    /\ oPc = "failed" => oRun.raisedAt # "none"

(* s is the beginning of t *)
IsPrefix(s, t) == Len(s) <= Len(t) /\ SubSeq(t, 1, Len(s)) = s

(* the transcription returned a transcript that is empty or only spaces *)
BlankAudio == oEnv.audio.ok /\ \A i \in 1..Len(oEnv.audio.val) : oEnv.audio.val[i] = " "

(* C26: within one run the stages are invoked in the order transcription,
   extraction, publishing, none of them twice; the extractor is invoked only
   after the transcription returned a transcript that is not blank, the
   publisher only after the extraction returned its record; a blank
   transcript ends the run in failure with neither of the two invoked. *)
C26_StagesInOrderOnce ==
    oPc \notin {"off", "unbuilt"} =>
        LET stages == oRun.stages
            has(x) == \E i \in 1..Len(stages) : stages[i] = x
        IN  /\ IsPrefix(stages, <<"transcription", "extraction", "publishing">>)
            /\ has("extraction") => oEnv.audio.ok /\ ~BlankAudio
                                       /\ oRun.transcript = oEnv.audio.val
            /\ has("publishing") => oRun.analysis # NoAnalysis
            /\ (BlankAudio /\ has("transcription")) =>
                  /\ stages = <<"transcription">>
                  /\ oPc = "failed"
                  /\ oResult = Ok(ErrorResult("ValueError"))

C26_Witness ==
    /\ oPc = "assembling"
    /\ oRun.stages = <<"transcription", "extraction", "publishing">>

C26_WitnessBlank ==
    /\ oPc = "failed"
    /\ oEnv.audio = Ok(<<" ">>)
    /\ oRun.stages = <<"transcription">>

(***************************************************************************)
(* The Vosk transcriber (vosk_transcriber.py).  An audio is a sequence of  *)
(* samples, one per ms: a spoken word or silence.  The recognizer of the   *)
(* vosk library is modelled by what it buffers: AcceptWaveform adds the    *)
(* chunk to the pending samples and reports an utterance when the chunk    *)
(* holds a silence; Result gives the words up to that silence and keeps    *)
(* the samples after it; FinalResult gives the words still pending.        *)
(***************************************************************************)

transcriberRest == <<analyzerVars, renderVars, publishVars, findVars, dueVars, secretaryVars,
                    botVars>>

Silence == "_"

(* the word spoken at ms i of an audio *)
Word(i) == <<"w1", "w2", "w3", "w4", "w5", "w6">>[i]

Min(a, b) == IF a <= b THEN a ELSE b

(* the words of a run of samples, as vosk writes them: separated by spaces *)
RECURSIVE WordsText(_)
WordsText(buf) ==
    IF buf = <<>> THEN <<>>
    ELSE IF Head(buf) = Silence THEN WordsText(Tail(buf))
    ELSE LET rest == WordsText(Tail(buf))
         IN  IF rest = <<>> THEN <<Head(buf)>> ELSE <<Head(buf), " ">> \o rest

(* ' '.join(transcript_parts) *)
RECURSIVE JoinParts(_)
JoinParts(parts) ==
    IF parts = <<>> THEN <<>>
    ELSE IF Len(parts) = 1 THEN parts[1]
    ELSE parts[1] \o <<" ">> \o JoinParts(Tail(parts))

(* vosk.KaldiRecognizer(self.model, 16000), made during call n of
   transcribe_audio (0: by the constructor) *)
NewRecognizer(n) == [born |-> n, pending |-> <<>>]

(* recognizer.AcceptWaveform(chunk_bytes) and, when it is true, Result() *)
AcceptWaveform(rec, chunk) ==
    LET buf == rec.pending \o chunk
        cut == CHOOSE i \in 0..Len(buf) :
                  /\ i = 0 \/ buf[i] = Silence
                  /\ \A j \in (i + 1)..Len(buf) : buf[j] # Silence
    IN  IF \E i \in 1..Len(chunk) : chunk[i] = Silence
        THEN [accepted |-> TRUE, text |-> WordsText(SubSeq(buf, 1, cut)),
              rec |-> [rec EXCEPT !.pending = SubSeq(buf, cut + 1, Len(buf))]]
        ELSE [accepted |-> FALSE, text |-> <<>>, rec |-> [rec EXCEPT !.pending = buf]]

(* transcribe_chunk: the text of the result when the chunk completes an
   utterance, '' otherwise *)
TranscribeChunk(rec, chunk) ==
    LET r == AcceptWaveform(rec, chunk)
    IN  [text |-> IF r.accepted THEN r.text ELSE <<>>, rec |-> r.rec]

(* get_final_result: the text of recognizer.FinalResult() *)
GetFinalResult(rec) ==
    [text |-> WordsText(rec.pending), rec |-> [rec EXCEPT !.pending = <<>>]]

(* a variant: a last chunk shorter than the chunk size is left out *)
ChunkOffsetsWholeOnly(L, C) == [k \in 1..(L \div C) |-> (k - 1) * C]

(* range(0, len(audio), chunk_size), in order *)
ChunkOffsets(L, C) ==
    [k \in 1..Cardinality({i \in 0..(L - 1) : i % C = 0}) |-> (k - 1) * C]

(* audio[i:i + chunk_size]: a slice ends where the audio ends *)
Slice(audio, i, C) == SubSeq(audio, i + 1, Min(i + C, Len(audio)))

NoOutput == [fed |-> <<>>, texts |-> <<>>, parts |-> <<>>, final |-> <<>>, raised |-> FALSE]

(* the chunk loop from chunk k on: st holds the recognizer and the locals;
   taking chunk number raiseAt out of the audio raises *)
RECURSIVE ChunkLoop(_, _, _, _, _)
ChunkLoop(st, audio, C, k, raiseAt) ==
    LET offsets == ChunkOffsets(Len(audio), C)
    IN  IF k > Len(offsets) THEN st
        ELSE IF k = raiseAt THEN [st EXCEPT !.out.raised = TRUE]
        ELSE LET i == offsets[k]
                 chunk == Slice(audio, i, C)
                 r == TranscribeChunk(st.rec, chunk)
             IN  ChunkLoop([rec |-> r.rec,
                            out |-> [st.out EXCEPT
                                        !.fed = Append(@, [from |-> i, to |-> i + Len(chunk)]),
                                        !.texts = Append(@, r.text),
                                        !.parts = IF r.text # <<>> THEN Append(@, r.text)
                                                  ELSE @]],
                           audio, C, k + 1, raiseAt)

(* transcribe_audio, call number n: the chunk loop, the final result, the
   reset of the recognizer, the join; an exception leaves through the except
   block, which logs it and raises it again *)
TranscribeAudio(rec, audio, C, n, raiseAt, resetFails) ==
    LET looped == ChunkLoop([rec |-> rec, out |-> NoOutput], audio, C, 1, raiseAt)
        fin == GetFinalResult(looped.rec)
        parts == IF fin.text # <<>> THEN Append(looped.out.parts, fin.text)
                 ELSE looped.out.parts
        out == [looped.out EXCEPT !.final = fin.text, !.parts = parts]
    IN  IF looped.out.raised
        THEN [rec |-> looped.rec, out |-> looped.out, result |-> Raise("Exception", <<"chunk">>)]
        ELSE IF resetFails
        THEN [rec |-> fin.rec, out |-> [out EXCEPT !.raised = TRUE],
              result |-> Raise("Exception", <<"recognizer">>)]
        ELSE [rec |-> NewRecognizer(n), out |-> out, result |-> Ok(JoinParts(parts))]

(* -- inputs -- *)

RECURSIVE AudiosOf(_)
AudiosOf(n) ==
    IF n = 0 THEN {<<>>}
    ELSE AudiosOf(n - 1)
            \cup {Append(a, x) : a \in {b \in AudiosOf(n - 1) : Len(b) = n - 1},
                                 x \in {Silence, Word(n)}}

Audios == AudiosOf(MaxAudio)

InitTranscribe ==
    /\ AnalyzerOff
    /\ RenderOff
    /\ PublishOff
    /\ FindOff
    /\ DueOff
    /\ SecretaryOff
    /\ BotOff
    /\ tPc = "unloaded"
    /\ chunkSize \in 1..MaxChunk
    /\ recognizer = [tag |-> "none"]
    /\ tCalls = 0
    /\ tIn = [tag |-> "none"]
    /\ tOut = [tag |-> "none"]

(* VoskTranscriber(config): the model is loaded and the first recognizer made *)
Load ==
    /\ tPc = "unloaded"
    /\ tPc' = "ready"
    /\ recognizer' = NewRecognizer(0)
    /\ UNCHANGED <<chunkSize, tCalls, tIn, tOut, transcriberRest>>

(* one call of transcribe_audio(audio) *)
TranscribeCall ==
    /\ tPc \in {"ready", "returned", "raised"}
    /\ tCalls < MaxCalls
    /\ \E audio \in Audios, raiseAt \in 0..MaxAudio, resetFails \in BOOLEAN :
          LET res == TranscribeAudio(recognizer, audio, chunkSize, tCalls + 1, raiseAt,
                                     resetFails)
          IN  /\ raiseAt <= Len(ChunkOffsets(Len(audio), chunkSize))
              /\ raiseAt = 0 \/ ~resetFails
              /\ tIn' = [audio |-> audio, raiseAt |-> raiseAt, resetFails |-> resetFails]
              /\ tOut' = [res.out EXCEPT !.raised = ~res.result.ok] @@ [result |-> res.result]
              /\ recognizer' = res.rec
              /\ tPc' = IF res.result.ok THEN "returned" ELSE "raised"
    /\ tCalls' = tCalls + 1
    /\ UNCHANGED <<chunkSize, transcriberRest>>

NextTranscribe ==
    \/ Load
    \/ TranscribeCall

SpecTranscribe == InitTranscribe /\ [][NextTranscribe]_vars

(***************************************************************************)
(* Claims about the transcriber.                                           *)
(***************************************************************************)

(* the number of chunks of an audio of L ms cut every C ms *)
CeilDiv(L, C) == (L + C - 1) \div C

(* the texts that are not empty, in their order *)
NonEmpty(texts) == SelectSeq(texts, LAMBDA t : t # <<>>)

(* the texts written one after the other with one space between neighbours *)
Spaced(texts) ==
    LET RECURSIVE At(_)
        At(k) == IF k = 0 THEN <<>> ELSE At(k - 1) \o (IF k = 1 THEN <<>> ELSE <<" ">>) \o texts[k]
    IN  At(Len(texts))

(* C27: a call of transcribe_audio that returns has fed the recognizer
   ceil(L/C) chunks in increasing offset order, chunk k covering
   [(k-1)C, min(kC, L)), so that together they cover [0, L) with no gap and no
   overlap; the transcript is the non-empty chunk texts in chunk order, then
   the non-empty final result, joined by single spaces. *)
C27_ChunksCoverAudioAndJoin ==
    tPc = "returned" =>
        LET L == Len(tIn.audio)
            C == chunkSize
            fed == tOut.fed
        IN  /\ Len(fed) = CeilDiv(L, C)
            /\ \A k \in 1..Len(fed) :
                  /\ fed[k].from = (k - 1) * C
                  /\ fed[k].to = IF k * C < L THEN k * C ELSE L
                  /\ k < Len(fed) => fed[k].to = fed[k + 1].from
            /\ Len(fed) > 0 => fed[1].from = 0 /\ fed[Len(fed)].to = L
            /\ Len(tOut.texts) = Len(fed)
            /\ tOut.result = Ok(Spaced(NonEmpty(Append(tOut.texts, tOut.final))))

C27_Witness ==
    /\ tPc = "returned"
    /\ chunkSize = 2
    /\ tIn.audio = <<Word(1), Silence, Word(3)>>
    /\ tOut.fed = <<[from |-> 0, to |-> 2], [from |-> 2, to |-> 3]>>
    /\ tOut.texts = <<<<Word(1)>>, <<>>>>
    /\ tOut.final = <<Word(3)>>
    /\ tOut.result = Ok(<<Word(1), " ", Word(3)>>)

(* what a recognizer that has heard nothing makes of the audio *)
FreshTranscript(audio, C) == TranscribeAudio(NewRecognizer(0), audio, C, 0, 0, FALSE).result

(* C28: after every call of transcribe_audio, returned or raised, the
   transcriber holds a recognizer made during that call that has been fed
   nothing, and the transcript a call returns is the one a fresh recognizer
   gives for its audio. *)
C28_FreshRecognizerAfterEveryCall ==
    /\ tPc \in {"returned", "raised"} =>
          /\ recognizer.born = tCalls
          /\ recognizer.pending = <<>>
    /\ tPc = "returned" => tOut.result = FreshTranscript(tIn.audio, chunkSize)

(***************************************************************************)
(* The chat front end (bot.py).  Each chat session sends one message, and  *)
(* after an oversized audio it may press the button and send a link; a     *)
(* handler is a coroutine, and the handlers of different sessions          *)
(* interleave at their awaits: one action is the code between two awaits.  *)
(* A download is taken to write its file whole when it completes.          *)
(***************************************************************************)

Sessions == 1..MaxSessions

AudioName == "audio.mp3"
DownloadedName == "downloaded_audio.mp3"
ProtocolName == "Protokol_soveshchaniya.docx"

FileNames == {AudioName, DownloadedName, ProtocolName}

(* what a file holds: nothing (no such file), the audio a session
   downloaded, or a document (of session 0: one from before these runs) *)
Absent == [kind |-> "absent", of |-> 0]
Audio(s) == [kind |-> "audio", of |-> s]
Document(s) == [kind |-> "document", of |-> s]

Nothing == [kind |-> "nothing", of |-> 0]

botRest == <<analyzerVars, renderVars, publishVars, findVars, dueVars, secretaryVars,
            transcriberVars>>

(* what a session has seen so far, with one more reply *)
Replied(s, reply) == [bSeen[s] EXCEPT !.replies = Append(@, reply)]

(* process_meeting_audio(name) as the handlers use it, up to the answer that
   follows: the file is read as it is now; a result that is returned is
   answered with "Обработка завершена" whatever its status, an exception with
   "Произошла ошибка" *)
RunOn(s, name, files) ==
    /\ bSeen' = [bSeen EXCEPT ![s] =
                    [Replied(s, IF bIn[s].run = "raised" THEN "error" ELSE "completed")
                        EXCEPT !.processed = files[name], !.status = bIn[s].run]]
    /\ bPc' = [bPc EXCEPT ![s] = IF bIn[s].run = "raised" THEN "ended" ELSE "processed"]

(* cmd_start: "Получено голосовое сообщение" is answered *)
Greet(s) ==
    /\ bPc[s] = "new"
    /\ bIn[s].msg \in {"voice", "audio"}
    /\ bPc' = [bPc EXCEPT ![s] = "answered"]
    /\ bSeen' = [bSeen EXCEPT ![s] = Replied(s, "received")]
    /\ UNCHANGED <<bIn, bFiles, botRest>>

(* cmd_start: get_file and download_file into "audio.mp3", then
   process_meeting_audio("audio.mp3") up to the answer that follows it; when
   the download fails, an audio message is answered with the size notice and
   the "send link" button, and a voice message leaves the handler with the
   exception *)
Fetch(s) ==
    /\ bPc[s] = "answered"
    /\ IF bIn[s].fetch
       THEN /\ bFiles' = [bFiles EXCEPT ![AudioName] = Audio(s)]
            /\ RunOn(s, AudioName, bFiles')
       ELSE /\ bPc' = [bPc EXCEPT ![s] = IF bIn[s].msg = "audio" THEN "offered" ELSE "ended"]
            /\ bSeen' = IF bIn[s].msg = "audio"
                        THEN [bSeen EXCEPT ![s] = Replied(s, "too_big")]
                        ELSE bSeen
            /\ UNCHANGED bFiles
    /\ UNCHANGED <<bIn, botRest>>

(* the states of a chat in the FSM storage: none, or the one that
   set_state(wait_url) stores *)
NoState == "none"
WaitUrl == "wait_url"

(* wait_button_response: "Ожидаю ссылку" is answered to the pressed button *)
WaitButtonResponse(s) ==
    /\ bPc[s] = "offered"
    /\ bPc' = [bPc EXCEPT ![s] = "pressed"]
    /\ bSeen' = [bSeen EXCEPT ![s] = Replied(s, "waiting")]
    /\ UNCHANGED <<bIn, bFiles, botRest>>

(* wait_button_response: await state.set_state(wait_url) *)
SetState(s) ==
    /\ bPc[s] = "pressed"
    /\ bPc' = [bPc EXCEPT ![s] = "set"]
    /\ bSeen' = [bSeen EXCEPT ![s].fsm = WaitUrl]
    /\ UNCHANGED <<bIn, bFiles, botRest>>

(* wait_button_response: await state.clear(), after which the handler is
   finished *)
ClearState(s) ==
    /\ bPc[s] = "set"
    /\ bPc' = [bPc EXCEPT ![s] = "finished"]
    /\ bSeen' = [bSeen EXCEPT ![s].fsm = NoState]
    /\ UNCHANGED <<bIn, bFiles, botRest>>

(* whether the filter of @dp.message(wait_url) lets a message of a chat in
   this state through: it does in the state that set_state(wait_url) stores;
   wait_url = State() has no name of its own, and what the filter answers for
   a chat with no state is left to the library *)
FilterPasses(fsm) == IF fsm = WaitUrl THEN {TRUE} ELSE BOOLEAN

(* get_url up to its first answer: the download link is asked of the disk
   API, and "Началась загрузка" is answered; a failure is answered by the
   outer handler with "Что-то пошло не так" *)
ResolveLink(s, seen, ok) ==
    /\ bPc' = [bPc EXCEPT ![s] = IF ok THEN "announced" ELSE "ended"]
    /\ bSeen' = [bSeen EXCEPT ![s] =
                    [seen EXCEPT !.replies = Append(@, IF ok THEN "started" ELSE "went_wrong")]]

(* get_url on the text message of a session that sends a link *)
Resolve(s) ==
    /\ bPc[s] = "new"
    /\ bIn[s].msg = "text"
    /\ ResolveLink(s, bSeen[s], bIn[s].fetch)
    /\ UNCHANGED <<bIn, bFiles, botRest>>

(* the text message that follows the pressed button, once
   wait_button_response has finished: it goes to get_url when the filter
   passes it, and to no handler otherwise *)
Link(s) ==
    /\ bPc[s] = "finished"
    /\ \E passes \in FilterPasses(bSeen[s].fsm), ok \in BOOLEAN :
          IF passes
          THEN ResolveLink(s, [bSeen[s] EXCEPT !.routed = "get_url"], ok)
          ELSE /\ bPc' = [bPc EXCEPT ![s] = "ended"]
               /\ bSeen' = [bSeen EXCEPT ![s].routed = "unhandled"]
    /\ UNCHANGED <<bIn, bFiles, botRest>>

(* get_url: the audio is fetched and written to 'downloaded_audio.mp3', and
   "Загрузка завершена, началась обработка" is answered *)
Store(s) ==
    /\ bPc[s] = "announced"
    /\ bFiles' = [bFiles EXCEPT ![DownloadedName] = Audio(s)]
    /\ bPc' = [bPc EXCEPT ![s] = "stored"]
    /\ bSeen' = [bSeen EXCEPT ![s] = Replied(s, "downloaded")]
    /\ UNCHANGED <<bIn, botRest>>

(* get_url: process_meeting_audio("downloaded_audio.mp3") up to the answer
   that follows it *)
Process(s) ==
    /\ bPc[s] = "stored"
    /\ RunOn(s, DownloadedName, bFiles)
    /\ UNCHANGED <<bIn, bFiles, botRest>>

(* both handlers: FSInputFile("Протокол_совещания.docx") is sent with
   answer_document; when there is no such file the exception is answered
   with "Произошла ошибка" *)
SendDocument(s) ==
    /\ bPc[s] = "processed"
    /\ bSeen' = [bSeen EXCEPT ![s] =
                    IF bFiles[ProtocolName] = Absent THEN Replied(s, "error")
                    ELSE [Replied(s, "document") EXCEPT !.sent = bFiles[ProtocolName]]]
    /\ bPc' = [bPc EXCEPT ![s] = "ended"]
    /\ UNCHANGED <<bIn, bFiles, botRest>>

(* how a run of process_meeting_audio ends for its caller: it returns the
   result with status "error" (no run ends in done) or raises what mkdir
   raised *)
RunOutcomes == {"error", "raised"}

InitBot ==
    /\ AnalyzerOff
    /\ RenderOff
    /\ PublishOff
    /\ FindOff
    /\ DueOff
    /\ SecretaryOff
    /\ TranscriberOff
    /\ bPc = [s \in Sessions |-> "new"]
    /\ bIn \in [Sessions -> [msg : {"voice", "audio", "text"}, fetch : BOOLEAN,
                             run : RunOutcomes]]
    /\ \E d \in {Absent, Document(0)} :
          bFiles = [f \in FileNames |-> IF f = ProtocolName THEN d ELSE Absent]
    /\ bSeen = [s \in Sessions |-> [processed |-> Nothing, sent |-> Nothing,
                                    status |-> "none", replies |-> <<>>,
                                    fsm |-> NoState, routed |-> "none"]]

NextBot ==
    \/ \E s \in Sessions : Greet(s)
    \/ \E s \in Sessions : Fetch(s)
    \/ \E s \in Sessions : Resolve(s)
    \/ \E s \in Sessions : Store(s)
    \/ \E s \in Sessions : Process(s)
    \/ \E s \in Sessions : SendDocument(s)
    \/ \E s \in Sessions : WaitButtonResponse(s)
    \/ \E s \in Sessions : SetState(s)
    \/ \E s \in Sessions : ClearState(s)
    \/ \E s \in Sessions : Link(s)

SpecBot == InitBot /\ [][NextBot]_vars

(***************************************************************************)
(* Claims about the chat front end.                                        *)
(***************************************************************************)

(* C20: with interleaved handlers, every run processes the audio that its own
   session downloaded and sends the document of its own run, and when the
   run has ended no file holds its audio any more. *)
C20_RunsKeepTheirOwnFiles ==
    \A s \in Sessions :
        /\ bSeen[s].processed \in {Nothing, Audio(s)}
        /\ bSeen[s].sent \in {Nothing, Document(s)}
        /\ bPc[s] = "ended" => \A f \in FileNames : bFiles[f] # Audio(s)

(* the replies of kind r that session s has received *)
Got(s, r) == {k \in 1..Len(bSeen[s].replies) : bSeen[s].replies[k] = r}

(* C21: a session whose audio was handled gets either the completion message
   with the document of its own run, or exactly one error message, never
   both; no completion message follows a run whose result status is error,
   and no document is sent that the run did not produce. *)
C21_CompletionOrOneError ==
    \A s \in Sessions :
        /\ Got(s, "completed") # {} => bSeen[s].status = "success"
        /\ Got(s, "document") # {} => bSeen[s].sent = Document(s)
        /\ ~(Got(s, "completed") # {} /\ Got(s, "error") # {})
        /\ (bPc[s] = "ended" /\ bSeen[s].status # "none") =>
              \/ Got(s, "completed") # {} /\ Got(s, "document") # {}
              \/ Cardinality(Got(s, "error")) = 1

(* C30: when wait_button_response has finished after the "send link" button
   was pressed, the chat's state in the FSM storage is wait_url; the text
   message that follows goes to get_url, and a link that is downloaded starts
   one run. *)
C30_ButtonLeavesChatWaitingForLink ==
    \A s \in Sessions :
        /\ bPc[s] = "finished" => bSeen[s].fsm = WaitUrl
        /\ bSeen[s].routed # "unhandled"
        /\ (bSeen[s].routed = "get_url" /\ bPc[s] = "ended" /\ Got(s, "downloaded") # {}) =>
              /\ bSeen[s].status # "none"
              /\ Cardinality(Got(s, "completed") \cup Got(s, "error")) >= 1

====
